---- MODULE Spec2Model ----
(***************************************************************************)
(* A model of src/src/descriptor.rs: the dynamic protocol buffer schema    *)
(* registry (Descriptors), its message and enum descriptors with their     *)
(* name and number indices, the import walk over a decoded file descriptor *)
(* and the reference resolution pass.                                      *)
(*                                                                         *)
(* Strings are sequences of one-character strings, so that format! is a    *)
(* concatenation and the first character of a key can be inspected.        *)
(* A Vec is a sequence; a Vec position is 0-based as in the source, so the *)
(* element with id i is vec[i + 1].  A LinkedHashMap is a function from    *)
(* its keys to its values.  A shared borrow &vec[i] is the record          *)
(* [at |-> i, val |-> vec[i + 1]]: which element it is, and what it holds. *)
(***************************************************************************)
EXTENDS Integers, Sequences, FiniteSets, TLC

\* ------------------------------------------------------------------ bounds

\* The most fields add_field is called with on the message under construction.
MaxFields == 3

\* The most values add_value is called with on the enum under construction.
MaxValues == 3

\* The most message descriptors the registry is filled with.
MaxMessages == 3

\* The most enum descriptors the registry is filled with.
MaxEnums == 2

\* ------------------------------------------------------------------ values

\* Option<T>
None == [tag |-> "None"]

Some(v) == [tag |-> "Some", val |-> v]

\* The outcome of an out-of-bounds index expression vec[i]: the thread panics.
Panic == [tag |-> "Panic"]

\* LinkedHashMap::new()
MapNew == << >>

\* LinkedHashMap::insert: the entry of key k is set to v, whether or not k was there.
MapInsert(map, k, v) == [x \in (DOMAIN map) \cup {k} |-> IF x = k THEN v ELSE map[x]]

\* LinkedHashMap::get
MapGet(map, k) == IF k \in DOMAIN map THEN Some(map[k]) ELSE None

\* The index expression &vec[i] of a Vec: a borrow of element i, or a panic.
Index(vec, i) == IF i >= 0 /\ i < Len(vec) THEN Some([at |-> i, val |-> vec[i + 1]]) ELSE Panic

\* A variant of store that pushes the element at the front and returns 0.
store_front(vec, elem) == [vec |-> <<elem>> \o vec, idx |-> 0]

\* fn store: push the element, return the position it was pushed at.
store(vec, elem) == [vec |-> Append(vec, elem), idx |-> Len(vec)]

\* A variant of the format string without the separator: format!("{}{}", path, name).
FormatPathName_no_dot(path, name) == path \o name

\* format!("{}.{}", path, name)
FormatPathName(path, name) == path \o <<".">> \o name

\* format!(".{}", package)
FormatDotPackage(package) == <<".">> \o package

\* ------------------------------------------------------------------ field types

\* InternalFieldType: the scalar markers.
ScalarTags == {"Double", "Float", "Int64", "UInt64", "Int32", "Fixed64", "Fixed32", "Bool",
               "String", "Group", "Bytes", "UInt32", "SFixed32", "SFixed64", "SInt32", "SInt64"}

Scalar(tag) == [tag |-> tag]

UnresolvedMessage(n) == [tag |-> "UnresolvedMessage", name |-> n]

UnresolvedEnum(n) == [tag |-> "UnresolvedEnum", name |-> n]

\* InternalFieldType::Message(MessageId(h))
Message(h) == [tag |-> "Message", id |-> h]

\* InternalFieldType::Enum(EnumId(h))
Enum(h) == [tag |-> "Enum", id |-> h]

\* FieldDescriptor::new
FieldDescriptor_new(name, number, field_label, field_type, default_value, optional) ==
    [name |-> name, number |-> number, field_label |-> field_label,
     field_type |-> field_type, default_value |-> default_value, optional |-> optional]

\* EnumValueDescriptor::new
EnumValueDescriptor_new(name, number) == [name |-> name, number |-> number]

\* ------------------------------------------------------------------ message descriptor

\* MessageDescriptor::new
MessageDescriptor_new(name) ==
    [name |-> name, fields |-> << >>, fields_by_name |-> MapNew, fields_by_number |-> MapNew]

\* A variant of add_field that keeps the first index entry of a repeated name or number.
add_field_first_wins(msg, descriptor) ==
    LET s == store(msg.fields, descriptor)
    IN  [msg EXCEPT !.fields = s.vec,
                    !.fields_by_name =
                        IF descriptor.name \in DOMAIN @ THEN @
                        ELSE MapInsert(@, descriptor.name, s.idx),
                    !.fields_by_number =
                        IF descriptor.number \in DOMAIN @ THEN @
                        ELSE MapInsert(@, descriptor.number, s.idx)]

\* MessageDescriptor::add_field
add_field(msg, descriptor) ==
    LET s == store(msg.fields, descriptor)
    IN  [msg EXCEPT !.fields = s.vec,
                    !.fields_by_name = MapInsert(@, descriptor.name, s.idx),
                    !.fields_by_number = MapInsert(@, descriptor.number, s.idx)]

\* MessageDescriptor::fields
fields(msg) == msg.fields

\* MessageDescriptor::field_by_name
field_by_name(msg, name) ==
    LET id == MapGet(msg.fields_by_name, name)
    IN  IF id.tag = "Some" THEN Index(msg.fields, id.val) ELSE None

\* MessageDescriptor::field_by_number
field_by_number(msg, number) ==
    LET id == MapGet(msg.fields_by_number, number)
    IN  IF id.tag = "Some" THEN Index(msg.fields, id.val) ELSE None

\* ------------------------------------------------------------------ enum descriptor

\* EnumDescriptor::new
EnumDescriptor_new(name) ==
    [name |-> name, values |-> << >>, values_by_name |-> MapNew, values_by_number |-> MapNew]

\* A variant of add_value that takes the value's id after the push: the length, not the position.
add_value_id_after_push(enm, descriptor) ==
    LET s == store(enm.values, descriptor)
    IN  [enm EXCEPT !.values = s.vec,
                    !.values_by_name = MapInsert(@, descriptor.name, Len(s.vec)),
                    !.values_by_number = MapInsert(@, descriptor.number, Len(s.vec))]

\* EnumDescriptor::add_value
add_value(enm, descriptor) ==
    LET s == store(enm.values, descriptor)
    IN  [enm EXCEPT !.values = s.vec,
                    !.values_by_name = MapInsert(@, descriptor.name, s.idx),
                    !.values_by_number = MapInsert(@, descriptor.number, s.idx)]

\* EnumDescriptor::value_by_name
value_by_name(enm, name) ==
    LET id == MapGet(enm.values_by_name, name)
    IN  IF id.tag = "Some" THEN Index(enm.values, id.val) ELSE None

\* EnumDescriptor::value_by_number
value_by_number(enm, number) ==
    LET id == MapGet(enm.values_by_number, number)
    IN  IF id.tag = "Some" THEN Index(enm.values, id.val) ELSE None

\* ------------------------------------------------------------------ default values

\* Result<T, E>
Ok(v) == [tag |-> "Ok", val |-> v]

Err(err) == [tag |-> "Err", err |-> err]

\* Result::ok
ResultOk(r) == IF r.tag = "Ok" THEN Some(r.val) ELSE None

\* fn bad: error::Error::BadDefaultValue { default_value }
bad(v) == [tag |-> "BadDefaultValue", default_value |-> v]

\* value::Value::X(v)
Value(tag, v) == [tag |-> tag, val |-> v]

DigitChars == {"0", "1", "2", "3", "4", "5", "6", "7", "8", "9"}

IsDigits(str) == \A i \in 1..Len(str) : str[i] \in DigitChars

DigitOf(c) ==
    CASE c = "0" -> 0 [] c = "1" -> 1 [] c = "2" -> 2 [] c = "3" -> 3 [] c = "4" -> 4
      [] c = "5" -> 5 [] c = "6" -> 6 [] c = "7" -> 7 [] c = "8" -> 8 [] c = "9" -> 9

\* A decimal magnitude without its leading zeros; zero is the empty sequence.
RECURSIVE StripZeros(_)
StripZeros(ds) == IF ds # << >> /\ Head(ds) = "0" THEN StripZeros(Tail(ds)) ELSE ds

\* a <= b for two magnitudes without leading zeros.
RECURSIVE DigitsLeq(_, _)
DigitsLeq(a, b) ==
    IF Len(a) # Len(b) THEN Len(a) < Len(b)
    ELSE IF a = << >> THEN TRUE
    ELSE IF Head(a) # Head(b) THEN DigitOf(Head(a)) < DigitOf(Head(b))
    ELSE DigitsLeq(Tail(a), Tail(b))

\* The largest magnitudes of the integer types: i32::MAX, -i32::MIN, i64::MAX, -i64::MIN,
\* u32::MAX, u64::MAX.
I32Max == <<"2", "1", "4", "7", "4", "8", "3", "6", "4", "7">>

I32MinMagnitude == <<"2", "1", "4", "7", "4", "8", "3", "6", "4", "8">>

I64Max == <<"9", "2", "2", "3", "3", "7", "2", "0", "3", "6", "8", "5", "4", "7", "7", "5", "8", "0", "7">>

I64MinMagnitude == <<"9", "2", "2", "3", "3", "7", "2", "0", "3", "6", "8", "5", "4", "7", "7", "5", "8", "0", "8">>

U32Max == <<"4", "2", "9", "4", "9", "6", "7", "2", "9", "5">>

U64Max == <<"1", "8", "4", "4", "6", "7", "4", "4", "0", "7", "3", "7", "0", "9", "5", "5", "1", "6", "1", "5">>

\* An integer value: its sign and its magnitude in decimal without leading zeros.
IntValue(negative, digits) ==
    [negative |-> negative /\ StripZeros(digits) # << >>, magnitude |-> StripZeros(digits)]

\* A variant of from_str that reads the digits without the overflow check.
IntFromStr_unchecked(str, signed, max, minMagnitude) ==
    IF str = << >> THEN Err("Empty")
    ELSE IF Head(str) \in {"+", "-"} /\ Tail(str) = << >> THEN Err("InvalidDigit")
    ELSE LET negative == signed /\ Head(str) = "-"
             digits == IF Head(str) = "+" \/ negative THEN Tail(str) ELSE str
         IN  IF ~IsDigits(digits) THEN Err("InvalidDigit")
             ELSE Ok(IntValue(negative, digits))

\* <integer type>::from_str (core::num): an optional sign ('-' only for a signed type),
\* then at least one decimal digit; a value the type cannot hold is an error.
IntFromStr(str, signed, max, minMagnitude) ==
    IF str = << >> THEN Err("Empty")
    ELSE IF Head(str) \in {"+", "-"} /\ Tail(str) = << >> THEN Err("InvalidDigit")
    ELSE LET negative == signed /\ Head(str) = "-"
             digits == IF Head(str) = "+" \/ negative THEN Tail(str) ELSE str
         IN  IF ~IsDigits(digits) THEN Err("InvalidDigit")
             ELSE IF negative /\ ~DigitsLeq(StripZeros(digits), minMagnitude) THEN Err("NegOverflow")
             ELSE IF ~negative /\ ~DigitsLeq(StripZeros(digits), max) THEN Err("PosOverflow")
             ELSE Ok(IntValue(negative, digits))

\* bool::from_str
BoolFromStr(str) ==
    IF str = <<"t", "r", "u", "e">> THEN Ok(TRUE)
    ELSE IF str = <<"f", "a", "l", "s", "e">> THEN Ok(FALSE)
    ELSE Err("ParseBoolError")

\* The lower-case form of the letters that spell inf, infinity and nan.
Lower(c) ==
    CASE c = "I" -> "i" [] c = "N" -> "n" [] c = "F" -> "f" [] c = "A" -> "a"
      [] c = "T" -> "t" [] c = "Y" -> "y" [] OTHER -> c

LowerStr(str) == [i \in 1..Len(str) |-> Lower(str[i])]

\* The positions of the characters of str that are in cs.
Positions(str, cs) == {i \in 1..Len(str) : str[i] \in cs}

\* A decimal float literal without sign: digits with at most one '.', at least one digit,
\* and an optional exponent: 'e' or 'E', an optional sign, at least one digit.
IsDecimalFloat(str) ==
    LET es == Positions(str, {"e", "E"})
        mantissa == IF es = {} THEN str ELSE SubSeq(str, 1, (CHOOSE i \in es : TRUE) - 1)
        exponent == IF es = {} THEN << >> ELSE SubSeq(str, (CHOOSE i \in es : TRUE) + 1, Len(str))
        expDigits == IF exponent # << >> /\ Head(exponent) \in {"+", "-"} THEN Tail(exponent)
                     ELSE exponent
        dots == Positions(mantissa, {"."})
    IN  /\ Cardinality(es) <= 1
        /\ Cardinality(dots) <= 1
        /\ \A i \in 1..Len(mantissa) : mantissa[i] \in DigitChars \cup {"."}
        /\ Len(mantissa) > Cardinality(dots)
        /\ es # {} => (expDigits # << >> /\ IsDigits(expDigits))

\* f32::from_str and f64::from_str (core::num::dec2flt): an optional sign, then inf,
\* infinity or nan in any case, or a decimal literal. The value is kept as its class and,
\* for a number, the text that denotes it: no literal is out of range, it rounds.
FloatFromStr(str) ==
    IF str = << >> THEN Err("Empty")
    ELSE LET negative == Head(str) = "-"
             body == IF Head(str) \in {"+", "-"} THEN Tail(str) ELSE str
         IN  IF LowerStr(body) \in {<<"i", "n", "f">>, <<"i", "n", "f", "i", "n", "i", "t", "y">>}
                 THEN Ok([class |-> IF negative THEN "-inf" ELSE "inf", text |-> << >>])
             ELSE IF LowerStr(body) = <<"n", "a", "n">>
                 THEN Ok([class |-> "nan", text |-> << >>])
             ELSE IF IsDecimalFloat(body) THEN Ok([class |-> "number", text |-> str])
             ELSE Err("Invalid")

\* The code points of the characters default values are written with.
CodePoint(c) ==
    CASE c \in DigitChars -> 48 + DigitOf(c)
      [] c = "+" -> 43 [] c = "-" -> 45 [] c = "." -> 46
      [] c = "E" -> 69 [] c = "a" -> 97 [] c = "e" -> 101 [] c = "f" -> 102
      [] c = "I" -> 73 [] c = "i" -> 105 [] c = "l" -> 108 [] c = "n" -> 110 [] c = "r" -> 114
      [] c = "s" -> 115 [] c = "t" -> 116 [] c = "u" -> 117 [] c = "x" -> 120
      [] c = "y" -> 121
      [] c = "A-macron" -> 256
      [] c = "euro" -> 8364

\* `c as u8`: the code point truncated to its low eight bits.
CharAsU8(c) == CodePoint(c) % 256

\* One arm of parse_default_value: <type>::from_str(value).map(Value::X).map_err(|_| bad(value))
MapValue(res, tag, value) == IF res.tag = "Ok" THEN Ok(Value(tag, res.val)) ELSE Err(bad(value))

\* fn parse_default_value. The Group arm is unimplemented!(): the thread panics.
parse_default_value(value, field_type) ==
    LET t == field_type.tag
    IN  CASE t \in {"UnresolvedMessage", "UnresolvedEnum", "Message", "Enum"} -> Err(bad(value))
          [] t = "Bool" -> MapValue(BoolFromStr(value), "Bool", value)
          [] t = "Double" ->
                IF value = <<"i", "n", "f">> THEN Ok(Value("F64", [class |-> "inf", text |-> << >>]))
                ELSE IF value = <<"-", "i", "n", "f">>
                    THEN Ok(Value("F64", [class |-> "-inf", text |-> << >>]))
                ELSE IF value = <<"n", "a", "n">>
                    THEN Ok(Value("F64", [class |-> "nan", text |-> << >>]))
                ELSE MapValue(FloatFromStr(value), "F64", value)
          [] t = "Float" ->
                IF value = <<"i", "n", "f">> THEN Ok(Value("F32", [class |-> "inf", text |-> << >>]))
                ELSE IF value = <<"-", "i", "n", "f">>
                    THEN Ok(Value("F32", [class |-> "-inf", text |-> << >>]))
                ELSE IF value = <<"n", "a", "n">>
                    THEN Ok(Value("F32", [class |-> "nan", text |-> << >>]))
                ELSE MapValue(FloatFromStr(value), "F32", value)
          [] t \in {"Int32", "SFixed32", "SInt32"} ->
                MapValue(IntFromStr(value, TRUE, I32Max, I32MinMagnitude), "I32", value)
          [] t \in {"Int64", "SFixed64", "SInt64"} ->
                MapValue(IntFromStr(value, TRUE, I64Max, I64MinMagnitude), "I64", value)
          [] t \in {"UInt32", "Fixed32"} ->
                MapValue(IntFromStr(value, FALSE, U32Max, << >>), "U32", value)
          [] t \in {"UInt64", "Fixed64"} ->
                MapValue(IntFromStr(value, FALSE, U64Max, << >>), "U64", value)
          [] t = "String" -> Ok(Value("String", value))
          [] t = "Group" -> Panic
          [] t = "Bytes" -> Ok(Value("Bytes", [i \in 1..Len(value) |-> CharAsU8(value[i])]))

\* ------------------------------------------------------------------ import of fields

\* FieldLabel::from_proto
FieldLabel_from_proto(label) ==
    CASE label = "LABEL_OPTIONAL" -> "Optional"
      [] label = "LABEL_REQUIRED" -> "Required"
      [] label = "LABEL_REPEATED" -> "Repeated"

\* InternalFieldType::from_proto: the tag after the prefix TYPE_, in the source's spelling.
ProtoTypeTag(type_) ==
    CASE type_ = "TYPE_DOUBLE" -> "Double"
      [] type_ = "TYPE_FLOAT" -> "Float"
      [] type_ = "TYPE_INT64" -> "Int64"
      [] type_ = "TYPE_UINT64" -> "UInt64"
      [] type_ = "TYPE_INT32" -> "Int32"
      [] type_ = "TYPE_FIXED64" -> "Fixed64"
      [] type_ = "TYPE_FIXED32" -> "Fixed32"
      [] type_ = "TYPE_BOOL" -> "Bool"
      [] type_ = "TYPE_STRING" -> "String"
      [] type_ = "TYPE_GROUP" -> "Group"
      [] type_ = "TYPE_BYTES" -> "Bytes"
      [] type_ = "TYPE_UINT32" -> "UInt32"
      [] type_ = "TYPE_SFIXED32" -> "SFixed32"
      [] type_ = "TYPE_SFIXED64" -> "SFixed64"
      [] type_ = "TYPE_SINT32" -> "SInt32"
      [] type_ = "TYPE_SINT64" -> "SInt64"

\* InternalFieldType::from_proto
InternalFieldType_from_proto(type_, type_name) ==
    CASE type_ = "TYPE_MESSAGE" -> UnresolvedMessage(type_name)
      [] type_ = "TYPE_ENUM" -> UnresolvedEnum(type_name)
      [] OTHER -> Scalar(ProtoTypeTag(type_))

\* FieldDescriptor::from_proto: the descriptor, or Panic where parse_default_value panics.
FieldDescriptor_from_proto(proto) ==
    LET name == proto.name
        number == proto.number
        field_label == FieldLabel_from_proto(proto.label)
        field_type == InternalFieldType_from_proto(proto.type_, proto.type_name)
        parsed == parse_default_value(proto.default_value, field_type)
        optional == proto.proto3_optional \/ field_label = "Optional"
    IN  IF proto.has_default_value /\ parsed = Panic THEN Panic
        ELSE FieldDescriptor_new(name, number, field_label, field_type,
                                 IF proto.has_default_value THEN ResultOk(parsed) ELSE None,
                                 optional)

\* EnumValueDescriptor::from_proto
EnumValueDescriptor_from_proto(proto) == EnumValueDescriptor_new(proto.name, proto.number)

\* The loop of MessageDescriptor::from_proto over proto.field from position i on: Panic
\* where a field's from_proto panics, the descriptor with the fields added otherwise.
RECURSIVE AddFieldProtos(_, _, _)
AddFieldProtos(msg, protos, i) ==
    IF i > Len(protos) THEN msg
    ELSE LET f == FieldDescriptor_from_proto(protos[i])
         IN  IF f = Panic THEN Panic ELSE AddFieldProtos(add_field(msg, f), protos, i + 1)

\* MessageDescriptor::from_proto
MessageDescriptor_from_proto(path, proto) ==
    AddFieldProtos(MessageDescriptor_new(FormatPathName(path, proto.name)), proto.field, 1)

\* The loop of EnumDescriptor::from_proto over proto.value from position i on.
RECURSIVE AddValueProtos(_, _, _)
AddValueProtos(enm, protos, i) ==
    IF i > Len(protos) THEN enm
    ELSE AddValueProtos(add_value(enm, EnumValueDescriptor_from_proto(protos[i])), protos, i + 1)

\* EnumDescriptor::from_proto
EnumDescriptor_from_proto(path, proto) ==
    AddValueProtos(EnumDescriptor_new(FormatPathName(path, proto.name)), proto.value, 1)

\* ------------------------------------------------------------------ registry

\* Descriptors::new
Descriptors_new ==
    [messages |-> << >>, enums |-> << >>, messages_by_name |-> MapNew, enums_by_name |-> MapNew]

\* Descriptors::message_by_name
message_by_name(descriptors, name) ==
    LET id == MapGet(descriptors.messages_by_name, name)
    IN  IF id.tag = "Some" THEN Index(descriptors.messages, id.val) ELSE None

\* Descriptors::enum_by_name
enum_by_name(descriptors, name) ==
    LET id == MapGet(descriptors.enums_by_name, name)
    IN  IF id.tag = "Some" THEN Index(descriptors.enums, id.val) ELSE None

\* A variant of add_message that leaves the index entry of a name registered before as it is.
add_message_first_wins(descriptors, descriptor) ==
    LET s == store(descriptors.messages, descriptor)
    IN  [descriptors EXCEPT !.messages = s.vec,
                            !.messages_by_name =
                                IF descriptor.name \in DOMAIN @ THEN @
                                ELSE MapInsert(@, descriptor.name, s.idx)]

\* A variant of add_message that puts a descriptor with a registered name in the place of
\* the one registered before (an update in place), and appends only a new name.
add_message_in_place(descriptors, descriptor) ==
    IF descriptor.name \in DOMAIN descriptors.messages_by_name
    THEN [descriptors EXCEPT !.messages[descriptors.messages_by_name[descriptor.name] + 1] = descriptor]
    ELSE LET s == store(descriptors.messages, descriptor)
         IN  [descriptors EXCEPT !.messages = s.vec,
                                 !.messages_by_name = MapInsert(@, descriptor.name, s.idx)]

\* Descriptors::add_message
add_message(descriptors, descriptor) ==
    LET s == store(descriptors.messages, descriptor)
    IN  [descriptors EXCEPT !.messages = s.vec,
                            !.messages_by_name = MapInsert(@, descriptor.name, s.idx)]

\* A variant of add_enum that refuses a name that is registered already: nothing is added.
add_enum_skip_duplicate(descriptors, descriptor) ==
    IF descriptor.name \in DOMAIN descriptors.enums_by_name THEN descriptors
    ELSE LET s == store(descriptors.enums, descriptor)
         IN  [descriptors EXCEPT !.enums = s.vec,
                                 !.enums_by_name = MapInsert(@, descriptor.name, s.idx)]

\* A variant of add_enum that takes the enum's id after the push: the length, not the position.
add_enum_id_after_push(descriptors, descriptor) ==
    LET s == store(descriptors.enums, descriptor)
    IN  [descriptors EXCEPT !.enums = s.vec,
                            !.enums_by_name = MapInsert(@, descriptor.name, Len(s.vec))]

\* Descriptors::add_enum
add_enum(descriptors, descriptor) ==
    LET s == store(descriptors.enums, descriptor)
    IN  [descriptors EXCEPT !.enums = s.vec,
                            !.enums_by_name = MapInsert(@, descriptor.name, s.idx)]

\* The registry in the middle of an import: the Descriptors so far, and whether the
\* import panicked (what follows the panic is not run).
\*
\* In the operators of the import each intermediate registry is bound once, as the only
\* element of a set (CHOOSE out \in {F(x) : x \in {value}} : TRUE is F(value)), so that
\* the registry built so far is a value and not an expression to evaluate again.
Running(descriptors) == [d |-> descriptors, panicked |-> FALSE]

\* The loop over enum protos from position i on: self.add_enum(EnumDescriptor::from_proto(path, p)).
RECURSIVE AddEnumProtos(_, _, _, _)
AddEnumProtos(r, path, protos, i) ==
    IF r.panicked \/ i > Len(protos) THEN r
    ELSE CHOOSE out \in
            {AddEnumProtos(r1, path, protos, i + 1) :
                r1 \in {[r EXCEPT !.d = add_enum(@, EnumDescriptor_from_proto(path, protos[i]))]}} :
            TRUE

RECURSIVE add_message_proto(_, _, _)

\* The loop over message protos from position i on: self.add_message_proto(path, p).
RECURSIVE AddMessageProtos(_, _, _, _)
AddMessageProtos(r, path, protos, i) ==
    IF r.panicked \/ i > Len(protos) THEN r
    ELSE CHOOSE out \in
            {AddMessageProtos(r1, path, protos, i + 1) :
                r1 \in {add_message_proto(r, path, protos[i])}} :
            TRUE

\* The rest of add_message_proto once the descriptor is built: the nested messages and
\* the nested enums are registered under its name, then the descriptor itself.
AddNestedThenMessage(r, message_descriptor, message_proto) ==
    CHOOSE out \in
        {IF r2.panicked THEN r2 ELSE [r2 EXCEPT !.d = add_message(@, message_descriptor)] :
            r2 \in {CHOOSE out1 \in
                       {AddEnumProtos(r1, message_descriptor.name, message_proto.enum_type, 1) :
                           r1 \in {AddMessageProtos(r, message_descriptor.name,
                                                    message_proto.nested_type, 1)}} :
                       TRUE}} :
        TRUE

\* Descriptors::add_message_proto; MessageDescriptor::from_proto may panic.
add_message_proto(r, path, message_proto) ==
    CHOOSE out \in
        {IF message_descriptor = Panic THEN [r EXCEPT !.panicked = TRUE]
         ELSE AddNestedThenMessage(r, message_descriptor, message_proto) :
            message_descriptor \in {MessageDescriptor_from_proto(path, message_proto)}} :
        TRUE

\* The loops of add_file_proto once the path is computed.
AddFileTypes(r, path, file_proto) ==
    CHOOSE out \in
        {AddEnumProtos(r1, path, file_proto.enum_type, 1) :
            r1 \in {AddMessageProtos(r, path, file_proto.message_type, 1)}} :
        TRUE

\* Descriptors::add_file_proto
add_file_proto(r, file_proto) ==
    CHOOSE out \in
        {AddFileTypes(r, path, file_proto) :
            path \in {IF file_proto.has_package THEN FormatDotPackage(file_proto.package)
                      ELSE << >>}} :
        TRUE

\* Descriptors::add_file_set_proto: add_file_proto for every file from position i on.
RECURSIVE add_file_set_proto(_, _, _)
add_file_set_proto(r, files, i) ==
    IF r.panicked \/ i > Len(files) THEN r
    ELSE CHOOSE out \in
            {add_file_set_proto(r1, files, i + 1) : r1 \in {add_file_proto(r, files[i])}} :
            TRUE

\* A variant of the match that looks an enum reference up in the message index.
ResolveFieldType_one_index(descriptors, field_type) ==
    CASE field_type.tag = "UnresolvedMessage" ->
            LET res == MapGet(descriptors.messages_by_name, field_type.name)
            IN  IF res.tag = "Some" THEN Message(res.val) ELSE field_type
      [] field_type.tag = "UnresolvedEnum" ->
            LET res == MapGet(descriptors.messages_by_name, field_type.name)
            IN  IF res.tag = "Some" THEN Enum(res.val) ELSE field_type
      [] OTHER -> field_type

\* A variant of the match that takes the first descriptor for an absent target
\* (unwrap_or_default in place of the warning).
ResolveFieldType_absent_is_first(descriptors, field_type) ==
    CASE field_type.tag = "UnresolvedMessage" ->
            LET res == MapGet(descriptors.messages_by_name, field_type.name)
            IN  IF res.tag = "Some" THEN Message(res.val) ELSE Message(0)
      [] field_type.tag = "UnresolvedEnum" ->
            LET res == MapGet(descriptors.enums_by_name, field_type.name)
            IN  IF res.tag = "Some" THEN Enum(res.val) ELSE Enum(0)
      [] OTHER -> field_type

\* The match of resolve_refs on one field type: the new type, or the old one where
\* the source assigns nothing (an absent target, or a type that is no unresolved reference).
ResolveFieldType(descriptors, field_type) ==
    CASE field_type.tag = "UnresolvedMessage" ->
            LET res == MapGet(descriptors.messages_by_name, field_type.name)
            IN  IF res.tag = "Some" THEN Message(res.val) ELSE field_type
      [] field_type.tag = "UnresolvedEnum" ->
            LET res == MapGet(descriptors.enums_by_name, field_type.name)
            IN  IF res.tag = "Some" THEN Enum(res.val) ELSE field_type
      [] OTHER -> field_type

\* The fields of a registry: the pairs of a message's place and a field's place in it
\* (both 1-based).
FieldPlaces(descriptors) ==
    UNION {{<<i, j>> : j \in 1..Len(descriptors.messages[i].fields)} :
              i \in 1..Len(descriptors.messages)}

\* A variant of resolve_refs that registers an empty message under the name of a
\* reference whose target is absent, for later passes to resolve it.
resolve_refs_add_placeholder(descriptors) ==
    LET absent == {descriptors.messages[c[1]].fields[c[2]].field_type.name :
                      c \in {c \in FieldPlaces(descriptors) :
                                /\ descriptors.messages[c[1]].fields[c[2]].field_type.tag = "UnresolvedMessage"
                                /\ descriptors.messages[c[1]].fields[c[2]].field_type.name
                                       \notin DOMAIN descriptors.messages_by_name}}
        resolved == [descriptors EXCEPT !.messages =
                        [i \in 1..Len(@) |->
                            [@[i] EXCEPT !.fields =
                                [j \in 1..Len(@) |->
                                    [@[j] EXCEPT !.field_type = ResolveFieldType(descriptors, @)]]]]]
    IN  IF absent = {} THEN resolved
        ELSE add_message(resolved, MessageDescriptor_new(CHOOSE n \in absent : TRUE))

\* A variant of resolve_refs that resolves again what is resolved: a stored handle is
\* replaced by the handle that the name of its target has in the index now.
resolve_refs_refresh(descriptors) ==
    [descriptors EXCEPT !.messages =
        [i \in 1..Len(@) |->
            [@[i] EXCEPT !.fields =
                [j \in 1..Len(@) |->
                    [@[j] EXCEPT !.field_type =
                        IF @.tag = "Message"
                        THEN Message(descriptors.messages_by_name[descriptors.messages[@.id + 1].name])
                        ELSE IF @.tag = "Enum"
                        THEN Enum(descriptors.enums_by_name[descriptors.enums[@.id + 1].name])
                        ELSE ResolveFieldType(descriptors, @)]]]]]

\* A variant of resolve_refs that takes for a message name the first message of the
\* sequence that has it (a scan from the front in place of the index).
resolve_refs_first_registered(descriptors) ==
    [descriptors EXCEPT !.messages =
        [i \in 1..Len(@) |->
            [@[i] EXCEPT !.fields =
                [j \in 1..Len(@) |->
                    [@[j] EXCEPT !.field_type =
                        IF @.tag = "UnresolvedMessage" /\ @.name \in DOMAIN descriptors.messages_by_name
                        THEN LET n == @.name
                             IN  Message((CHOOSE k \in 1..Len(descriptors.messages) :
                                            /\ descriptors.messages[k].name = n
                                            /\ \A k2 \in 1..(k - 1) : descriptors.messages[k2].name # n) - 1)
                        ELSE ResolveFieldType(descriptors, @)]]]]]

\* A variant of resolve_refs that stops at the first field it rewrites.
resolve_refs_first_only(descriptors) ==
    LET changes == {c \in FieldPlaces(descriptors) :
                        ResolveFieldType(descriptors, descriptors.messages[c[1]].fields[c[2]].field_type)
                            # descriptors.messages[c[1]].fields[c[2]].field_type}
        first == CHOOSE c \in changes :
                    \A c2 \in changes : c[1] < c2[1] \/ (c[1] = c2[1] /\ c[2] <= c2[2])
    IN  IF changes = {} THEN descriptors
        ELSE [descriptors EXCEPT !.messages[first[1]].fields[first[2]].field_type =
                                      ResolveFieldType(descriptors, @)]

\* A variant of resolve_refs that rewrites only references to messages and enums
\* registered before the message that refers to them.
resolve_refs_backward_only(descriptors) ==
    [descriptors EXCEPT !.messages =
        [i \in 1..Len(@) |->
            [@[i] EXCEPT !.fields =
                [j \in 1..Len(@) |->
                    [@[j] EXCEPT !.field_type =
                        LET t == ResolveFieldType(descriptors, @)
                        IN  IF t.tag = "Message" /\ t.id >= i - 1 THEN @ ELSE t]]]]]

\* Descriptors::resolve_refs: every field of every message, in place.
resolve_refs(descriptors) ==
    [descriptors EXCEPT !.messages =
        [i \in 1..Len(@) |->
            [@[i] EXCEPT !.fields =
                [j \in 1..Len(@) |->
                    [@[j] EXCEPT !.field_type = ResolveFieldType(descriptors, @)]]]]]

\* ------------------------------------------------------------------ state

\* m: the MessageDescriptor under construction (None once it was moved into the registry).
\* e: the EnumDescriptor under construction (None once it was moved into the registry).
\* d: the registry, a Descriptors.
\* op: the call that returned last, with its argument.
VARIABLES m, e, d, op

vars == <<m, e, d, op>>

Call(name, arg) == [name |-> name, arg |-> arg]

\* ------------------------------------------------------------------ inputs

\* ".A", ".B", ".E": qualified names the callers of the building API use.
NameA == <<".", "A">>

NameB == <<".", "B">>

NameE == <<".", "E">>

\* Names, numbers and types of the fields add_field is called with. Two names and two
\* numbers, so that calls repeat a name, a number, both or neither.
FieldNames == {<<"x">>, <<"y">>}

FieldNumbers == {1, 2}

FieldTypes == {Scalar("Int32"), UnresolvedMessage(NameA), UnresolvedEnum(NameE)}

FieldInputs ==
    {FieldDescriptor_new(n, k, "Optional", t, None, TRUE) :
        n \in FieldNames, k \in FieldNumbers, t \in FieldTypes}

\* Names and numbers of the values add_value is called with.
ValueNames == {<<"X">>, <<"Y">>, <<"Z">>}

ValueNumbers == {0, 1, 2}

ValueInputs == {EnumValueDescriptor_new(n, k) : n \in ValueNames, k \in ValueNumbers}

\* A message built through the building API: MessageDescriptor::new(name), then add_field
\* for every descriptor of fs from position i on.
RECURSIVE WithFields(_, _, _)
WithFields(msg, fs, i) == IF i > Len(fs) THEN msg ELSE WithFields(add_field(msg, fs[i]), fs, i + 1)

\* An enum built through the building API: EnumDescriptor::new(name), then add_value.
RECURSIVE WithValues(_, _, _)
WithValues(enm, vs, i) == IF i > Len(vs) THEN enm ELSE WithValues(add_value(enm, vs[i]), vs, i + 1)

Field(name, number, field_type) == FieldDescriptor_new(name, number, "Optional", field_type, None, TRUE)

\* The messages add_message is called with. .A refers to .B, which is registered after
\* it or before it; .B refers to .A and to itself; a second .A repeats a registered name
\* with other fields: a scalar, a reference to enum .E, and a reference to a message .E,
\* a name that only enums are registered under.
MessageInputs ==
    {WithFields(MessageDescriptor_new(NameA), <<Field(<<"x">>, 1, UnresolvedMessage(NameB))>>, 1),
     WithFields(MessageDescriptor_new(NameB),
                <<Field(<<"x">>, 1, UnresolvedMessage(NameA)),
                  Field(<<"y">>, 2, UnresolvedMessage(NameB))>>, 1),
     WithFields(MessageDescriptor_new(NameA),
                <<Field(<<"x">>, 1, Scalar("Int32")),
                  Field(<<"y">>, 2, UnresolvedEnum(NameE)),
                  Field(<<"z">>, 3, UnresolvedMessage(NameE))>>, 1)}

\* The enums add_enum is called with: .E with an alias (the files declare another .E),
\* and an enum that has the name of a message.
EnumInputs ==
    {WithValues(EnumDescriptor_new(NameE),
                <<EnumValueDescriptor_new(<<"X">>, 0), EnumValueDescriptor_new(<<"Z">>, 0)>>, 1),
     WithValues(EnumDescriptor_new(NameA), <<EnumValueDescriptor_new(<<"X">>, 0)>>, 1)}

\* A decoded FieldDescriptorProto without default value.
FieldProto(name, number, label, type_, type_name) ==
    [name |-> name, number |-> number, label |-> label, type_ |-> type_,
     type_name |-> type_name, has_default_value |-> FALSE, default_value |-> << >>,
     proto3_optional |-> FALSE]

\* A decoded DescriptorProto.
MessageProto(name, field, nested_type, enum_type) ==
    [name |-> name, field |-> field, nested_type |-> nested_type, enum_type |-> enum_type]

\* A decoded EnumDescriptorProto.
EnumProto(name, value) == [name |-> name, value |-> value]

\* A decoded FileDescriptorProto.
FileProto(has_package, package, message_type, enum_type) ==
    [has_package |-> has_package, package |-> package, message_type |-> message_type,
     enum_type |-> enum_type]

EnumProtoE == EnumProto(<<"E">>, <<[name |-> <<"X">>, number |-> 0], [name |-> <<"Y">>, number |-> 1]>>)

\* A file without package: message A, whose fields refer to a message of the other file
\* and to the enum declared after it, and enum E.
FileNoPackage ==
    FileProto(FALSE, << >>,
        <<MessageProto(<<"A">>,
            <<FieldProto(<<"x">>, 1, "LABEL_OPTIONAL", "TYPE_MESSAGE", <<".", "p", ".", "A", ".", "B">>),
              FieldProto(<<"y">>, 2, "LABEL_REPEATED", "TYPE_ENUM", NameE)>>,
            << >>, << >>)>>,
        <<EnumProtoE>>)

\* A file of package p: message A with the nested message B, which declares enum E.
\* A refers to B, B to A, to its own enum and to the message of the other file.
FilePackage ==
    FileProto(TRUE, <<"p">>,
        <<MessageProto(<<"A">>,
            <<FieldProto(<<"x">>, 1, "LABEL_REQUIRED", "TYPE_MESSAGE", <<".", "p", ".", "A", ".", "B">>),
              FieldProto(<<"y">>, 2, "LABEL_OPTIONAL", "TYPE_INT32", << >>)>>,
            <<MessageProto(<<"B">>,
                <<FieldProto(<<"x">>, 1, "LABEL_OPTIONAL", "TYPE_MESSAGE", <<".", "p", ".", "A">>),
                  FieldProto(<<"y">>, 2, "LABEL_OPTIONAL", "TYPE_ENUM",
                             <<".", "p", ".", "A", ".", "B", ".", "E">>),
                  FieldProto(<<"z">>, 3, "LABEL_REPEATED", "TYPE_MESSAGE", NameA)>>,
                << >>, <<EnumProtoE>>)>>,
            << >>)>>,
        << >>)

\* A file of the dotted package p.q: three levels of nesting, the innermost message with
\* the local name of the outermost, and an enum at the top.
FileDeep ==
    FileProto(TRUE, <<"p", ".", "q">>,
        <<MessageProto(<<"A">>, << >>,
            <<MessageProto(<<"B">>, << >>,
                <<MessageProto(<<"A">>,
                    <<FieldProto(<<"x">>, 1, "LABEL_OPTIONAL", "TYPE_STRING", << >>)>>,
                    << >>, << >>)>>,
                << >>)>>,
            << >>)>>,
        <<EnumProtoE>>)

\* The files add_file_proto is called with.
FileInputs == {FileNoPackage, FilePackage, FileDeep}

\* The file sets add_file_set_proto is called with: the two files that refer to each
\* other, in both orders.
FileSetInputs == {<<FileNoPackage, FilePackage>>, <<FilePackage, FileNoPackage>>}

\* ------------------------------------------------------------------ operations

\* m.add_field(f)
AddField(f) ==
    /\ m # None
    /\ Len(m.fields) < MaxFields
    /\ m' = add_field(m, f)
    /\ op' = Call("add_field", f)
    /\ UNCHANGED <<e, d>>

\* e.add_value(v)
AddValue(v) ==
    /\ e # None
    /\ Len(e.values) < MaxValues
    /\ e' = add_value(e, v)
    /\ op' = Call("add_value", v)
    /\ UNCHANGED <<m, d>>

\* d.add_message(m): the message under construction is moved into the registry.
AddBuiltMessage ==
    /\ m # None
    /\ Len(d.messages) < MaxMessages
    /\ d' = add_message(d, m)
    /\ m' = None
    /\ op' = Call("add_message", m)
    /\ UNCHANGED e

\* d.add_enum(e): the enum under construction is moved into the registry.
AddBuiltEnum ==
    /\ e # None
    /\ Len(d.enums) < MaxEnums
    /\ d' = add_enum(d, e)
    /\ e' = None
    /\ op' = Call("add_enum", e)
    /\ UNCHANGED m

\* d.resolve_refs()
ResolveRefs ==
    /\ op.name # "panic"
    /\ d' = resolve_refs(d)
    /\ op' = Call("resolve_refs", None)
    /\ UNCHANGED <<m, e>>

\* ------------------------------------------------------------------ one message's life

\* MessageDescriptor::new(name), an empty registry.
InitMessage ==
    /\ m \in {MessageDescriptor_new(n) : n \in {NameA, NameB}}
    /\ e = None
    /\ d = Descriptors_new
    /\ op = Call("new", None)

NextMessage ==
    \/ \E f \in FieldInputs : AddField(f)
    \/ AddBuiltMessage
    \/ ResolveRefs

\* A message is built field by field, registered, and its references resolved.
SpecMessage == InitMessage /\ [][NextMessage]_vars

\* ------------------------------------------------------------------ one enum's life

\* EnumDescriptor::new(name), an empty registry.
InitEnum ==
    /\ m = None
    /\ e \in {EnumDescriptor_new(n) : n \in {NameE}}
    /\ d = Descriptors_new
    /\ op = Call("new", None)

NextEnum ==
    \/ \E v \in ValueInputs : AddValue(v)
    \/ AddBuiltEnum

\* An enum is built value by value and registered.
SpecEnum == InitEnum /\ [][NextEnum]_vars

\* ------------------------------------------------------------------ the registry's life

\* d.add_message(descriptor)
AddMessage(descriptor) ==
    /\ op.name # "panic"
    /\ Len(d.messages) < MaxMessages
    /\ d' = add_message(d, descriptor)
    /\ op' = Call("add_message", descriptor)
    /\ UNCHANGED <<m, e>>

\* d.add_enum(descriptor)
AddEnum(descriptor) ==
    /\ op.name # "panic"
    /\ Len(d.enums) < MaxEnums
    /\ d' = add_enum(d, descriptor)
    /\ op' = Call("add_enum", descriptor)
    /\ UNCHANGED <<m, e>>

\* d.add_file_proto(file_proto); a panic in it ends the thread with what was added so far.
AddFileProto(file_proto) ==
    LET r == add_file_proto(Running(d), file_proto)
    IN  /\ op.name # "panic"
        /\ Len(r.d.messages) <= MaxMessages
        /\ Len(r.d.enums) <= MaxEnums
        /\ d' = r.d
        /\ op' = Call(IF r.panicked THEN "panic" ELSE "add_file_proto", file_proto)
        /\ UNCHANGED <<m, e>>

\* d.add_file_set_proto(file_set_proto)
AddFileSetProto(files) ==
    LET r == add_file_set_proto(Running(d), files, 1)
    IN  /\ op.name # "panic"
        /\ Len(r.d.messages) <= MaxMessages
        /\ Len(r.d.enums) <= MaxEnums
        /\ d' = r.d
        /\ op' = Call(IF r.panicked THEN "panic" ELSE "add_file_set_proto", files)
        /\ UNCHANGED <<m, e>>

\* Descriptors::new()
Init ==
    /\ m = None
    /\ e = None
    /\ d = Descriptors_new
    /\ op = Call("new", None)

Next ==
    \/ \E descriptor \in MessageInputs : AddMessage(descriptor)
    \/ \E descriptor \in EnumInputs : AddEnum(descriptor)
    \/ \E file_proto \in FileInputs : AddFileProto(file_proto)
    \/ \E files \in FileSetInputs : AddFileSetProto(files)
    \/ ResolveRefs

\* A registry is filled through add_message, add_enum and the import of files, and its
\* references are resolved at any time, any number of times.
Spec == Init /\ [][Next]_vars

\* ------------------------------------------------------------------ what exists

\* Every message descriptor there is: the one under construction, those of the registry.
AllMessages == (IF m = None THEN {} ELSE {m}) \cup {d.messages[i] : i \in 1..Len(d.messages)}

\* Every enum descriptor there is.
AllEnums == (IF e = None THEN {} ELSE {e}) \cup {d.enums[i] : i \in 1..Len(d.enums)}

\* The borrow of element i (0-based) of a Vec that holds it.
Ref(vec, i) == Some([at |-> i, val |-> vec[i + 1]])

\* ------------------------------------------------------------------ C1

\* C1 as stated: for every field f of every message, field_by_name(f.name()) is f itself
\* and field_by_number(f.number()) is f itself, also after add_field calls that repeat a
\* name or a number.
C1_EveryFieldFound ==
    \A M \in AllMessages : \A i \in 1..Len(fields(M)) :
        /\ field_by_name(M, fields(M)[i].name) = Ref(fields(M), i - 1)
        /\ field_by_number(M, fields(M)[i].number) = Ref(fields(M), i - 1)

\* C1, amended: field_by_name(f.name()) is the field added last under the name of f, and
\* field_by_number(f.number()) the field added last under the number of f: f itself exactly
\* when no later add_field call repeated its name (its number). Every index entry is the
\* position of a field that has the entry's key.
C1_LastFieldFound ==
    \A M \in AllMessages :
        /\ \A i \in 1..Len(fields(M)) :
            LET f == fields(M)[i]
                lastName == CHOOSE j \in 1..Len(fields(M)) :
                    /\ fields(M)[j].name = f.name
                    /\ \A k \in 1..Len(fields(M)) : fields(M)[k].name = f.name => k <= j
                lastNumber == CHOOSE j \in 1..Len(fields(M)) :
                    /\ fields(M)[j].number = f.number
                    /\ \A k \in 1..Len(fields(M)) : fields(M)[k].number = f.number => k <= j
            IN  /\ field_by_name(M, f.name) = Ref(fields(M), lastName - 1)
                /\ field_by_number(M, f.number) = Ref(fields(M), lastNumber - 1)
        /\ \A n \in DOMAIN M.fields_by_name :
            /\ M.fields_by_name[n] \in 0..(Len(fields(M)) - 1)
            /\ fields(M)[M.fields_by_name[n] + 1].name = n
        /\ \A k \in DOMAIN M.fields_by_number :
            /\ M.fields_by_number[k] \in 0..(Len(fields(M)) - 1)
            /\ fields(M)[M.fields_by_number[k] + 1].number = k

\* A message whose second add_field call repeated the first one's name under another
\* number, and whose third repeated the first one's number under another name.
C1_Witness ==
    /\ m # None
    /\ Len(m.fields) = 3
    /\ m.fields[1].name = m.fields[2].name
    /\ m.fields[1].number # m.fields[2].number
    /\ m.fields[1].number = m.fields[3].number
    /\ m.fields[1].name # m.fields[3].name

\* ------------------------------------------------------------------ C2

\* C2 as stated: for every value v of every enum, value_by_name(v.name()) is v itself and
\* value_by_number(v.number()) is v itself, also after add_value calls that repeat a name
\* or a number.
C2_EveryValueFound ==
    \A E \in AllEnums : \A i \in 1..Len(E.values) :
        /\ value_by_name(E, E.values[i].name) = Ref(E.values, i - 1)
        /\ value_by_number(E, E.values[i].number) = Ref(E.values, i - 1)

\* C2, amended: value_by_name(v.name()) is the value added last under the name of v, and
\* value_by_number(v.number()) the value added last under the number of v: v itself exactly
\* when no later add_value call repeated its name (its number). Every index entry is the
\* position of a value that has the entry's key.
C2_LastValueFound ==
    \A E \in AllEnums :
        /\ \A i \in 1..Len(E.values) :
            LET v == E.values[i]
                lastName == CHOOSE j \in 1..Len(E.values) :
                    /\ E.values[j].name = v.name
                    /\ \A k \in 1..Len(E.values) : E.values[k].name = v.name => k <= j
                lastNumber == CHOOSE j \in 1..Len(E.values) :
                    /\ E.values[j].number = v.number
                    /\ \A k \in 1..Len(E.values) : E.values[k].number = v.number => k <= j
            IN  /\ value_by_name(E, v.name) = Ref(E.values, lastName - 1)
                /\ value_by_number(E, v.number) = Ref(E.values, lastNumber - 1)
        /\ \A n \in DOMAIN E.values_by_name :
            /\ E.values_by_name[n] \in 0..(Len(E.values) - 1)
            /\ E.values[E.values_by_name[n] + 1].name = n
        /\ \A k \in DOMAIN E.values_by_number :
            /\ E.values_by_number[k] \in 0..(Len(E.values) - 1)
            /\ E.values[E.values_by_number[k] + 1].number = k

\* An enum whose second add_value call gave a new name to the first one's number (an
\* alias), and whose third repeated the first one's name under a new number.
C2_Witness ==
    /\ e # None
    /\ Len(e.values) = 3
    /\ e.values[1].number = e.values[2].number
    /\ e.values[1].name # e.values[2].name
    /\ e.values[1].name = e.values[3].name
    /\ e.values[1].number # e.values[3].number

\* ------------------------------------------------------------------ C3

\* C3 as stated: for every message M of the registry's message sequence,
\* message_by_name(M.name()) is M itself, at its position, and for every enum E of the
\* enum sequence enum_by_name(E.name()) is E itself.
C3_EveryDescriptorFound ==
    /\ \A i \in 1..Len(d.messages) :
        message_by_name(d, d.messages[i].name) = Ref(d.messages, i - 1)
    /\ \A i \in 1..Len(d.enums) :
        enum_by_name(d, d.enums[i].name) = Ref(d.enums, i - 1)

\* C3, amended: message_by_name(M.name()) is the message registered last under the name
\* of M, which is M itself exactly when no later add_message or import registered that
\* name again; the same for enums.
C3_LastDescriptorFound ==
    /\ \A i \in 1..Len(d.messages) :
        LET last == CHOOSE j \in 1..Len(d.messages) :
                /\ d.messages[j].name = d.messages[i].name
                /\ \A k \in 1..Len(d.messages) : d.messages[k].name = d.messages[i].name => k <= j
        IN  message_by_name(d, d.messages[i].name) = Ref(d.messages, last - 1)
    /\ \A i \in 1..Len(d.enums) :
        LET last == CHOOSE j \in 1..Len(d.enums) :
                /\ d.enums[j].name = d.enums[i].name
                /\ \A k \in 1..Len(d.enums) : d.enums[k].name = d.enums[i].name => k <= j
        IN  enum_by_name(d, d.enums[i].name) = Ref(d.enums, last - 1)

\* A registry in which a message name and an enum name were each registered twice, with
\* different contents, by add_message, add_enum or an import, and references were resolved.
C3_Witness ==
    /\ op.name = "resolve_refs"
    /\ \E i, j \in 1..Len(d.messages) :
        i < j /\ d.messages[i].name = d.messages[j].name /\ d.messages[i] # d.messages[j]
    /\ \E i, j \in 1..Len(d.enums) :
        i < j /\ d.enums[i].name = d.enums[j].name /\ d.enums[i] # d.enums[j]

\* ------------------------------------------------------------------ C4

\* The stored type of field j of message i of a registry (both 1-based here).
StoredType(descriptors, i, j) == descriptors.messages[i].fields[j].field_type

\* C4: when resolve_refs returns, every field that was UnresolvedMessage(n) with n in the
\* message index is Message(h) and h is the position of the descriptor message_by_name(n)
\* returns; every field that was UnresolvedEnum(n) with n in the enum index is Enum(h)
\* and h is the position of the descriptor enum_by_name(n) returns.
C4_ResolvedToIndexed ==
    [][op'.name = "resolve_refs" =>
        \A p \in FieldPlaces(d) :
            LET before == StoredType(d, p[1], p[2])
                after == StoredType(d', p[1], p[2])
            IN  /\ (before.tag = "UnresolvedMessage" /\ before.name \in DOMAIN d.messages_by_name)
                        => /\ after.tag = "Message"
                           /\ Index(d'.messages, after.id) # Panic
                           /\ Index(d'.messages, after.id) = message_by_name(d', before.name)
                /\ (before.tag = "UnresolvedEnum" /\ before.name \in DOMAIN d.enums_by_name)
                        => /\ after.tag = "Enum"
                           /\ Index(d'.enums, after.id) # Panic
                           /\ Index(d'.enums, after.id) = enum_by_name(d', before.name)]_vars

\* resolve_refs has returned, and a field holds a message handle and a field an enum handle.
C4_Witness ==
    /\ op.name = "resolve_refs"
    /\ \E p \in FieldPlaces(d) : StoredType(d, p[1], p[2]).tag = "Message"
    /\ \E p \in FieldPlaces(d) : StoredType(d, p[1], p[2]).tag = "Enum"

\* ------------------------------------------------------------------ C5

\* C5: in every reachable registry, resolve_refs run twice in a row leaves exactly the
\* registry that the first run leaves.
C5_ResolveIdempotent == resolve_refs(resolve_refs(d)) = resolve_refs(d)

\* A registry that a run of resolve_refs changes, and in which that run leaves a
\* reference unresolved.
C5_Witness ==
    /\ resolve_refs(d) # d
    /\ \E p \in FieldPlaces(d) :
        StoredType(resolve_refs(d), p[1], p[2]).tag \in {"UnresolvedMessage", "UnresolvedEnum"}

\* ------------------------------------------------------------------ C6

\* A field without its stored type: what resolve_refs never touches.
FieldButType(f) ==
    [name |-> f.name, number |-> f.number, field_label |-> f.field_label,
     default_value |-> f.default_value, optional |-> f.optional]

\* A message with every field's stored type left out.
MessageButTypes(M) == [M EXCEPT !.fields = [j \in 1..Len(@) |-> FieldButType(@[j])]]

\* The stored type is a reference whose target is in neither index.
Dangling(descriptors, t) ==
    \/ t.tag = "UnresolvedMessage" /\ t.name \notin DOMAIN descriptors.messages_by_name
    \/ t.tag = "UnresolvedEnum" /\ t.name \notin DOMAIN descriptors.enums_by_name

\* C6: resolve_refs can always be called and returns, and it removes nothing: a field
\* whose target is absent keeps its unresolved variant and its name, and every message
\* keeps its place, its name, its fields but for their types, and is found by the same
\* lookups as before.
C6_DanglingKept ==
    /\ [](op.name # "panic" => ENABLED ResolveRefs)
    /\ [][op'.name = "resolve_refs" =>
            /\ \A p \in FieldPlaces(d) :
                Dangling(d, StoredType(d, p[1], p[2]))
                    => StoredType(d', p[1], p[2]) = StoredType(d, p[1], p[2])
            /\ Len(d'.messages) = Len(d.messages)
            /\ \A i \in 1..Len(d.messages) :
                /\ MessageButTypes(d'.messages[i]) = MessageButTypes(d.messages[i])
                /\ message_by_name(d', d.messages[i].name).tag = "Some"
                /\ message_by_name(d', d.messages[i].name).val.at
                       = message_by_name(d, d.messages[i].name).val.at
            /\ d'.enums = d.enums
            /\ d'.messages_by_name = d.messages_by_name
            /\ d'.enums_by_name = d.enums_by_name]_vars

\* resolve_refs has returned and has left a message reference and an enum reference
\* unresolved, in a message that is found under its name.
C6_Witness ==
    /\ op.name = "resolve_refs"
    /\ \E i \in 1..Len(d.messages) :
        /\ \E j \in 1..Len(d.messages[i].fields) :
            /\ StoredType(d, i, j).tag = "UnresolvedMessage"
            /\ Dangling(d, StoredType(d, i, j))
        /\ \E j \in 1..Len(d.messages[i].fields) :
            /\ StoredType(d, i, j).tag = "UnresolvedEnum"
            /\ Dangling(d, StoredType(d, i, j))
        /\ message_by_name(d, d.messages[i].name) = Ref(d.messages, i - 1)

\* ------------------------------------------------------------------ C7

\* C7: whenever resolve_refs has just returned, no field is left with a reference to a
\* registered name, whatever the order in which the referring message and its target
\* were added.
C7_NoResolvableLeft ==
    op.name = "resolve_refs" =>
        \A p \in FieldPlaces(d) :
            LET t == StoredType(d, p[1], p[2])
            IN  /\ t.tag = "UnresolvedMessage" => t.name \notin DOMAIN d.messages_by_name
                /\ t.tag = "UnresolvedEnum" => t.name \notin DOMAIN d.enums_by_name

\* resolve_refs has returned; message i refers to message k that was added after it,
\* k refers back to i, and k refers to itself.
C7_Witness ==
    /\ op.name = "resolve_refs"
    /\ \E i, k \in 1..Len(d.messages) :
        /\ i < k
        /\ \E j \in 1..Len(d.messages[i].fields) : StoredType(d, i, j) = Message(k - 1)
        /\ \E j \in 1..Len(d.messages[k].fields) : StoredType(d, k, j) = Message(i - 1)
        /\ \E j \in 1..Len(d.messages[k].fields) : StoredType(d, k, j) = Message(k - 1)

\* ------------------------------------------------------------------ C8

\* The strings of a sequence joined by dots.
RECURSIVE DotJoin(_)
DotJoin(segments) ==
    IF segments = << >> THEN << >>
    ELSE IF Len(segments) = 1 THEN segments[1]
    ELSE segments[1] \o <<".">> \o DotJoin(Tail(segments))

\* The chains of local names, outermost first, of the messages declared in protos and,
\* at any depth, in their nested types, below the chain prefix.
RECURSIVE MessageChains(_, _)
MessageChains(protos, prefix) ==
    UNION {{Append(prefix, protos[i].name)}
               \cup MessageChains(protos[i].nested_type, Append(prefix, protos[i].name)) :
           i \in 1..Len(protos)}

\* The chains of the enums declared inside the messages of protos, at any depth.
RECURSIVE NestedEnumChains(_, _)
NestedEnumChains(protos, prefix) ==
    UNION {{Append(Append(prefix, protos[i].name), protos[i].enum_type[k].name) :
                k \in 1..Len(protos[i].enum_type)}
               \cup NestedEnumChains(protos[i].nested_type, Append(prefix, protos[i].name)) :
           i \in 1..Len(protos)}

\* The package of a file as the first link of its chains, if the file has one.
PackageChain(file_proto) == IF file_proto.has_package THEN <<file_proto.package>> ELSE << >>

\* The chains of every message and of every enum a file declares.
FileMessageChains(file_proto) == MessageChains(file_proto.message_type, PackageChain(file_proto))

FileEnumChains(file_proto) ==
    {Append(PackageChain(file_proto), file_proto.enum_type[k].name) :
        k \in 1..Len(file_proto.enum_type)}
    \cup NestedEnumChains(file_proto.message_type, PackageChain(file_proto))

\* The names of the descriptors a step appended to a sequence.
Appended(before, after) == {after[i].name : i \in (Len(before) + 1)..Len(after)}

RECURSIVE ProtosIn(_)
ProtosIn(protos) ==
    UNION {{protos[i]} \cup ProtosIn(protos[i].nested_type) : i \in 1..Len(protos)}

ImportedMessageProtos == UNION {ProtosIn(file_proto.message_type) : file_proto \in FileInputs}

\* C9: fields() is the sequence of the add_field calls in their order: add_field puts
\* its argument behind the fields there are and leaves those as they are, add_message
\* moves the message into the registry with its fields as they are, and no step reorders
\* or removes a field of a registered message (resolve_refs changes stored types only).
\* The fields of an imported message are those of the proto's field list, in its order.
C9_FieldsInCallOrder ==
    [][/\ op'.name = "add_field" => fields(m') = Append(fields(m), op'.arg)
       /\ (m # None /\ m' # None /\ op'.name # "add_field") => fields(m') = fields(m)
       /\ (m # None /\ m' = None) =>
            /\ Len(d'.messages) = Len(d.messages) + 1
            /\ fields(d'.messages[Len(d'.messages)]) = fields(m)
       /\ \A i \in 1..Len(d.messages) :
            /\ i <= Len(d'.messages)
            /\ fields(MessageButTypes(d'.messages[i])) = fields(MessageButTypes(d.messages[i]))
       /\ \A proto \in ImportedMessageProtos :
            LET imported == fields(MessageDescriptor_from_proto(<<".", "p">>, proto))
            IN  /\ Len(imported) = Len(proto.field)
                /\ \A j \in 1..Len(proto.field) :
                    /\ imported[j].name = proto.field[j].name
                    /\ imported[j].number = proto.field[j].number]_vars

\* A message was built with three add_field calls, the third with the name of the first
\* and another number, the second with another name; it was registered, and resolve_refs
\* has rewritten a type in it: the registered fields are those of the calls, in their order.
C9_Witness ==
    /\ op.name = "resolve_refs"
    /\ m = None
    /\ Len(d.messages) = 1
    /\ Len(fields(d.messages[1])) = 3
    /\ fields(d.messages[1])[1].name = fields(d.messages[1])[3].name
    /\ fields(d.messages[1])[1].name # fields(d.messages[1])[2].name
    /\ fields(d.messages[1])[1].number # fields(d.messages[1])[3].number
    /\ \E j \in 1..3 : StoredType(d, 1, j).tag = "Message"

\* ------------------------------------------------------------------ C10

\* The message handles and the enum handles stored in the fields of a registry.
MessageHandles(descriptors) ==
    {StoredType(descriptors, p[1], p[2]).id :
        p \in {q \in FieldPlaces(descriptors) : StoredType(descriptors, q[1], q[2]).tag = "Message"}}

EnumHandles(descriptors) ==
    {StoredType(descriptors, p[1], p[2]).id :
        p \in {q \in FieldPlaces(descriptors) : StoredType(descriptors, q[1], q[2]).tag = "Enum"}}

\* C10: every step keeps each registered descriptor at its position with its name and
\* its fields or values (a step of add_message, add_enum or of an import keeps it as it
\* is, resolve_refs changes stored types only), no sequence gets shorter, and a handle
\* stored in a field stays stored there and denotes the descriptor it denoted.
C10_AppendOnly ==
    [][/\ Len(d'.messages) >= Len(d.messages)
       /\ Len(d'.enums) >= Len(d.enums)
       /\ \A i \in 1..Len(d.messages) :
            /\ MessageButTypes(d'.messages[i]) = MessageButTypes(d.messages[i])
            /\ op'.name # "resolve_refs" => d'.messages[i] = d.messages[i]
       /\ \A i \in 1..Len(d.enums) : d'.enums[i] = d.enums[i]
       /\ \A p \in FieldPlaces(d) :
            StoredType(d, p[1], p[2]).tag \in {"Message", "Enum"}
                => StoredType(d', p[1], p[2]) = StoredType(d, p[1], p[2])
       /\ \A h \in MessageHandles(d) :
            /\ Index(d.messages, h) # Panic
            /\ MessageButTypes(Index(d'.messages, h).val.val)
                   = MessageButTypes(Index(d.messages, h).val.val)
       /\ \A h \in EnumHandles(d) :
            /\ Index(d.enums, h) # Panic
            /\ Index(d'.enums, h) = Index(d.enums, h)]_vars

\* A registry that holds resolved handles to a message and to an enum, to which a
\* message and an enum were added afterwards under the names the handles' targets have.
C10_Witness ==
    /\ op.name \in {"add_message", "add_enum", "add_file_proto"}
    /\ \E h \in MessageHandles(d) :
        \E i \in 1..Len(d.messages) : i - 1 > h /\ d.messages[i].name = d.messages[h + 1].name
    /\ \E h \in EnumHandles(d) :
        \E i \in 1..Len(d.enums) : i - 1 > h /\ d.enums[i].name = d.enums[h + 1].name

\* ------------------------------------------------------------------ views

\* FieldType<'a>: the externally visible type of a field. A resolved view borrows the
\* descriptor; an unresolved one borrows the name; a scalar marker is itself.
FieldType_Message(ref) == [tag |-> "Message", ref |-> ref]

FieldType_Enum(ref) == [tag |-> "Enum", ref |-> ref]

FieldType_UnresolvedMessage(n) == [tag |-> "UnresolvedMessage", name |-> n]

FieldType_UnresolvedEnum(n) == [tag |-> "UnresolvedEnum", name |-> n]

\* A variant of resolve that looks an unresolved reference up in the other index: a
\* message name among the enums, an enum name among the messages.
InternalFieldType_resolve_crossed(t, descriptors) ==
    CASE t.tag = "UnresolvedMessage" ->
            LET found == MapGet(descriptors.enums_by_name, t.name)
                target == Index(descriptors.messages, found.val)
            IN  IF found.tag = "None" THEN FieldType_UnresolvedMessage(t.name)
                ELSE IF target = Panic THEN Panic
                ELSE FieldType_Message(target.val)
      [] t.tag = "UnresolvedEnum" ->
            LET found == MapGet(descriptors.messages_by_name, t.name)
                target == Index(descriptors.enums, found.val)
            IN  IF found.tag = "None" THEN FieldType_UnresolvedEnum(t.name)
                ELSE IF target = Panic THEN Panic
                ELSE FieldType_Enum(target.val)
      [] t.tag = "Message" ->
            LET found == Index(descriptors.messages, t.id)
            IN  IF found = Panic THEN Panic ELSE FieldType_Message(found.val)
      [] t.tag = "Enum" ->
            LET found == Index(descriptors.enums, t.id)
            IN  IF found = Panic THEN Panic ELSE FieldType_Enum(found.val)
      [] OTHER -> Scalar(t.tag)

\* A variant of resolve that answers from the stored type alone: an unresolved
\* reference stays unresolved until resolve_refs has rewritten it.
InternalFieldType_resolve_stored_only(t, descriptors) ==
    CASE t.tag = "UnresolvedMessage" -> FieldType_UnresolvedMessage(t.name)
      [] t.tag = "UnresolvedEnum" -> FieldType_UnresolvedEnum(t.name)
      [] t.tag = "Message" ->
            LET found == Index(descriptors.messages, t.id)
            IN  IF found = Panic THEN Panic ELSE FieldType_Message(found.val)
      [] t.tag = "Enum" ->
            LET found == Index(descriptors.enums, t.id)
            IN  IF found = Panic THEN Panic ELSE FieldType_Enum(found.val)
      [] OTHER -> Scalar(t.tag)

\* InternalFieldType::resolve: the view of a stored type against a registry, or Panic
\* where an index expression is out of bounds.
InternalFieldType_resolve(t, descriptors) ==
    CASE t.tag = "UnresolvedMessage" ->
            LET found == message_by_name(descriptors, t.name)
            IN  IF found = Panic THEN Panic
                ELSE IF found.tag = "Some" THEN FieldType_Message(found.val)
                ELSE FieldType_UnresolvedMessage(t.name)
      [] t.tag = "UnresolvedEnum" ->
            LET found == enum_by_name(descriptors, t.name)
            IN  IF found = Panic THEN Panic
                ELSE IF found.tag = "Some" THEN FieldType_Enum(found.val)
                ELSE FieldType_UnresolvedEnum(t.name)
      [] t.tag = "Message" ->
            LET found == Index(descriptors.messages, t.id)
            IN  IF found = Panic THEN Panic ELSE FieldType_Message(found.val)
      [] t.tag = "Enum" ->
            LET found == Index(descriptors.enums, t.id)
            IN  IF found = Panic THEN Panic ELSE FieldType_Enum(found.val)
      [] OTHER -> Scalar(t.tag)

\* FieldDescriptor::field_type
field_type(field, descriptors) == InternalFieldType_resolve(field.field_type, descriptors)

\* FieldDescriptor::default_value
default_value(field) == field.default_value

\* ------------------------------------------------------------------ C11

\* Keys that readers look up: the names and numbers the callers and the files use, and
\* a name and a number that nothing is ever registered under.
ProbeNames ==
    {NameA, NameB, NameE, <<".", "p", ".", "A">>, <<".", "p", ".", "A", ".", "B">>,
     <<".", "Absent">>, <<"x">>, <<"y">>, <<"z">>, <<"X">>, <<"Y">>, <<"Z">>, << >>}

ProbeNumbers == {-1, 0, 1, 2, 3, 7}

\* A lookup through an index: not a panic, a borrow exactly for the keys of the index.
SafeLookup(result, key, index) ==
    /\ result # Panic
    /\ result.tag = (IF key \in DOMAIN index THEN "Some" ELSE "None")

\* C11: every entry of the six indices is a position of the sequence it indexes, and so
\* is every handle stored in a field; no lookup by name or number and no field_type call
\* on the registry panics, and a key that is not in an index is answered with None.
C11_ReadsInBounds ==
    /\ \A n \in DOMAIN d.messages_by_name : d.messages_by_name[n] \in 0..(Len(d.messages) - 1)
    /\ \A n \in DOMAIN d.enums_by_name : d.enums_by_name[n] \in 0..(Len(d.enums) - 1)
    /\ \A n \in ProbeNames \cup DOMAIN d.messages_by_name :
        SafeLookup(message_by_name(d, n), n, d.messages_by_name)
    /\ \A n \in ProbeNames \cup DOMAIN d.enums_by_name :
        SafeLookup(enum_by_name(d, n), n, d.enums_by_name)
    /\ \A M \in AllMessages :
        /\ \A n \in DOMAIN M.fields_by_name : M.fields_by_name[n] \in 0..(Len(M.fields) - 1)
        /\ \A k \in DOMAIN M.fields_by_number : M.fields_by_number[k] \in 0..(Len(M.fields) - 1)
        /\ \A n \in ProbeNames \cup DOMAIN M.fields_by_name :
            SafeLookup(field_by_name(M, n), n, M.fields_by_name)
        /\ \A k \in ProbeNumbers \cup DOMAIN M.fields_by_number :
            SafeLookup(field_by_number(M, k), k, M.fields_by_number)
        /\ \A j \in 1..Len(M.fields) :
            /\ M.fields[j].field_type.tag = "Message"
                    => M.fields[j].field_type.id \in 0..(Len(d.messages) - 1)
            /\ M.fields[j].field_type.tag = "Enum"
                    => M.fields[j].field_type.id \in 0..(Len(d.enums) - 1)
            /\ field_type(M.fields[j], d) # Panic
    /\ \A E \in AllEnums :
        /\ \A n \in DOMAIN E.values_by_name : E.values_by_name[n] \in 0..(Len(E.values) - 1)
        /\ \A k \in DOMAIN E.values_by_number : E.values_by_number[k] \in 0..(Len(E.values) - 1)
        /\ \A n \in ProbeNames \cup DOMAIN E.values_by_name :
            SafeLookup(value_by_name(E, n), n, E.values_by_name)
        /\ \A k \in ProbeNumbers \cup DOMAIN E.values_by_number :
            SafeLookup(value_by_number(E, k), k, E.values_by_number)

\* A registry with a message name and an enum name registered twice, a stored message
\* handle and a stored enum handle, in which a lookup of a name that was never registered
\* and a lookup of a registered name are both answered.
C11_Witness ==
    /\ op.name = "resolve_refs"
    /\ \E i, j \in 1..Len(d.messages) : i < j /\ d.messages[i].name = d.messages[j].name
    /\ \E i, j \in 1..Len(d.enums) : i < j /\ d.enums[i].name = d.enums[j].name
    /\ \E p \in FieldPlaces(d) : StoredType(d, p[1], p[2]).tag = "Message"
    /\ \E p \in FieldPlaces(d) : StoredType(d, p[1], p[2]).tag = "Enum"
    /\ message_by_name(d, <<".", "Absent">>) = None
    /\ message_by_name(d, NameA).tag = "Some"

\* ------------------------------------------------------------------ default values of imported fields

\* The most files with a default value that are imported into one registry.
MaxDefaultFiles == 1

\* Default value strings that are decimal integers: zero with and without sign, a plus
\* sign, leading zeros, and the two sides of every bound of the four integer widths.
IntegerStrings ==
    {<<"0">>,
     <<"-", "0">>,
     <<"+", "5">>,
     <<"0", "0", "7">>,
     <<"-", "1">>,
     <<"2", "1", "4", "7", "4", "8", "3", "6", "4", "7">>,
     <<"2", "1", "4", "7", "4", "8", "3", "6", "4", "8">>,
     <<"-", "2", "1", "4", "7", "4", "8", "3", "6", "4", "8">>,
     <<"-", "2", "1", "4", "7", "4", "8", "3", "6", "4", "9">>,
     <<"4", "2", "9", "4", "9", "6", "7", "2", "9", "5">>,
     <<"4", "2", "9", "4", "9", "6", "7", "2", "9", "6">>,
     <<"9", "2", "2", "3", "3", "7", "2", "0", "3", "6", "8", "5", "4", "7", "7", "5", "8", "0", "7">>,
     <<"9", "2", "2", "3", "3", "7", "2", "0", "3", "6", "8", "5", "4", "7", "7", "5", "8", "0", "8">>,
     <<"-", "9", "2", "2", "3", "3", "7", "2", "0", "3", "6", "8", "5", "4", "7", "7", "5", "8", "0", "8">>,
     <<"-", "9", "2", "2", "3", "3", "7", "2", "0", "3", "6", "8", "5", "4", "7", "7", "5", "8", "0", "9">>,
     <<"1", "8", "4", "4", "6", "7", "4", "4", "0", "7", "3", "7", "0", "9", "5", "5", "1", "6", "1", "5">>,
     <<"1", "8", "4", "4", "6", "7", "4", "4", "0", "7", "3", "7", "0", "9", "5", "5", "1", "6", "1", "6">>}

\* Strings that no integer type reads: empty, a lone sign, a trailing letter, a fraction.
MalformedStrings ==
    {<< >>,
     <<"-">>,
     <<"1", "x">>,
     <<"1", ".", "5">>}

\* Strings for the other types: booleans, the float keywords, exponents, and two
\* characters beyond one byte.
OtherStrings ==
    {<<"t", "r", "u", "e">>,
     <<"f", "a", "l", "s", "e">>,
     <<"i", "n", "f">>,
     <<"-", "i", "n", "f">>,
     <<"n", "a", "n">>,
     <<"I", "n", "f">>,
     <<"1", "e", "5">>,
     <<"1", "e">>,
     <<"A-macron">>,
     <<"euro", "x">>}

\* The type tags of a FieldDescriptorProto.
IntegerProtoTypes ==
    {"TYPE_INT32", "TYPE_SFIXED32", "TYPE_SINT32", "TYPE_INT64", "TYPE_SFIXED64", "TYPE_SINT64",
     "TYPE_UINT32", "TYPE_FIXED32", "TYPE_UINT64", "TYPE_FIXED64"}

OtherProtoTypes ==
    {"TYPE_DOUBLE", "TYPE_FLOAT", "TYPE_BOOL", "TYPE_STRING", "TYPE_GROUP", "TYPE_BYTES",
     "TYPE_MESSAGE", "TYPE_ENUM"}

\* The pairs of a type tag and a default value string that the files carry: every
\* integer type with every integer string and every malformed one, every other type with
\* the strings of the other types, the malformed ones and two integers.
DefaultPairs ==
    (IntegerProtoTypes \X (IntegerStrings \cup MalformedStrings))
    \cup (OtherProtoTypes \X (OtherStrings \cup MalformedStrings \cup {<<"0">>, <<"-", "1">>}))

\* A decoded FieldDescriptorProto that carries a default value.
FieldProtoDefault(name, number, label, type_, type_name, value) ==
    [FieldProto(name, number, label, type_, type_name) EXCEPT
        !.has_default_value = TRUE, !.default_value = value]

\* The type name a field proto of a type tag carries: a name for a message or an enum.
TypeNameOf(type_) ==
    CASE type_ = "TYPE_MESSAGE" -> NameB [] type_ = "TYPE_ENUM" -> NameE [] OTHER -> << >>

\* A file with one message A of two fields of one type: x carries the default value
\* string, y carries none.
DefaultFile(type_, value) ==
    FileProto(FALSE, << >>,
        <<MessageProto(<<"A">>,
            <<FieldProtoDefault(<<"x">>, 1, "LABEL_OPTIONAL", type_, TypeNameOf(type_), value),
              FieldProto(<<"y">>, 2, "LABEL_REPEATED", type_, TypeNameOf(type_))>>,
            << >>, << >>)>>,
        << >>)

DefaultFileInputs == {DefaultFile(p[1], p[2]) : p \in DefaultPairs}

\* Files whose fields carry default values are imported into a new registry.
NextDefault ==
    \E file_proto \in DefaultFileInputs :
        /\ Len(d.messages) < MaxDefaultFiles
        /\ AddFileProto(file_proto)

SpecDefault == Init /\ [][NextDefault]_vars

\* ------------------------------------------------------------------ C12

\* The field protos of the one message of a file of DefaultFileInputs.
FieldProtosOf(file_proto) == file_proto.message_type[1].field

\* The decoder does not read the string as a value of the type.
Undecodable(value, t) == parse_default_value(value, t).tag # "Ok"

\* The import returned and registered the file's message as the last one, with every
\* field's name, number, label and type as the proto gives them, without a default value
\* where the proto carries none or one that cannot be decoded.
ImportedWithAbsentDefaults(file_proto, name, before, after) ==
    /\ name = "add_file_proto"
    /\ Len(after.messages) = Len(before.messages) + 1
    /\ LET M == after.messages[Len(after.messages)]
           protos == FieldProtosOf(file_proto)
       IN  /\ Len(fields(M)) = Len(protos)
           /\ \A j \in 1..Len(protos) :
                LET f == fields(M)[j]
                    t == InternalFieldType_from_proto(protos[j].type_, protos[j].type_name)
                IN  /\ f.name = protos[j].name
                    /\ f.number = protos[j].number
                    /\ f.field_label = FieldLabel_from_proto(protos[j].label)
                    /\ f.field_type = t
                    /\ field_by_name(M, protos[j].name) = Ref(fields(M), j - 1)
                    /\ ~protos[j].has_default_value => default_value(f) = None
                    /\ (protos[j].has_default_value /\ Undecodable(protos[j].default_value, t))
                            => default_value(f) = None
                    /\ (protos[j].has_default_value /\ ~Undecodable(protos[j].default_value, t))
                            => default_value(f) = Some(parse_default_value(protos[j].default_value, t).val)

\* C12 as stated: for every field type, the import of a field whose default value cannot
\* be decoded returns, and the field is registered with its name, number, label and type
\* and without default value; so is a field without default value.
C12_BadDefaultAbsent ==
    [][op'.name \in {"add_file_proto", "panic"}
            => ImportedWithAbsentDefaults(op'.arg, op'.name, d, d')]_vars

\* What the code does where C12 fails: C12 holds for every field type but Group. The
\* import of a Group field that carries a default value, whatever the string, panics:
\* the import is aborted and the field's message is not registered. A Group field
\* without default value is imported like any other.
C12_BadDefaultAbsentButGroup ==
    [][op'.name \in {"add_file_proto", "panic"} =>
        IF \E j \in 1..Len(FieldProtosOf(op'.arg)) :
                /\ FieldProtosOf(op'.arg)[j].has_default_value
                /\ FieldProtosOf(op'.arg)[j].type_ = "TYPE_GROUP"
        THEN op'.name = "panic" /\ d' = d
        ELSE ImportedWithAbsentDefaults(op'.arg, op'.name, d, d')]_vars

\* The case of C12 where it holds: a field of type UInt32 was imported whose default
\* value is out of the type's range; the field is there, without default value.
C12_Witness ==
    /\ op.name = "add_file_proto"
    /\ FieldProtosOf(op.arg)[1].type_ = "TYPE_UINT32"
    /\ FieldProtosOf(op.arg)[1].default_value = <<"4", "2", "9", "4", "9", "6", "7", "2", "9", "6">>
    /\ Len(d.messages) = 1
    /\ fields(d.messages[1])[1].field_type = Scalar("UInt32")
    /\ default_value(fields(d.messages[1])[1]) = None

\* ------------------------------------------------------------------ C13

\* The position (1-based) of the descriptor that was registered last under a name.
LastNamed(vec, n) ==
    CHOOSE j \in 1..Len(vec) : vec[j].name = n /\ \A k \in 1..Len(vec) : vec[k].name = n => k <= j

\* A name is the name of a descriptor of the sequence.
Registered(vec, n) == \E j \in 1..Len(vec) : vec[j].name = n

\* What C13 says the view of a stored type is, against the registry as it is now.
ViewNow(t, descriptors) ==
    CASE t.tag = "UnresolvedMessage" ->
            IF Registered(descriptors.messages, t.name)
            THEN FieldType_Message(Ref(descriptors.messages,
                                       LastNamed(descriptors.messages, t.name) - 1).val)
            ELSE FieldType_UnresolvedMessage(t.name)
      [] t.tag = "UnresolvedEnum" ->
            IF Registered(descriptors.enums, t.name)
            THEN FieldType_Enum(Ref(descriptors.enums, LastNamed(descriptors.enums, t.name) - 1).val)
            ELSE FieldType_UnresolvedEnum(t.name)
      [] t.tag = "Message" -> FieldType_Message(Ref(descriptors.messages, t.id).val)
      [] t.tag = "Enum" -> FieldType_Enum(Ref(descriptors.enums, t.id).val)
      [] OTHER -> t

\* C13: in every state, resolve_refs run or not, field_type(registry) of a field whose
\* stored type is an unresolved reference is the view of the descriptor that is found
\* under the name now, or the unresolved name where none is; of a stored handle, the
\* descriptor at the handle's position; of a scalar marker, the marker. A step that
\* registers the target of a stored unresolved reference turns its view from unresolved
\* to resolved while the stored type stays as it was.
C13_ViewAtCallTime ==
    /\ [](\A p \in FieldPlaces(d) :
            field_type(d.messages[p[1]].fields[p[2]], d) = ViewNow(StoredType(d, p[1], p[2]), d))
    /\ [][\A p \in FieldPlaces(d) :
            LET t == StoredType(d, p[1], p[2])
                before == field_type(d.messages[p[1]].fields[p[2]], d)
                after == field_type(d'.messages[p[1]].fields[p[2]], d')
            IN  /\ (/\ op'.name # "resolve_refs"
                    /\ t.tag = "UnresolvedMessage"
                    /\ ~Registered(d.messages, t.name)
                    /\ Registered(d'.messages, t.name))
                        => /\ StoredType(d', p[1], p[2]) = t
                           /\ before = FieldType_UnresolvedMessage(t.name)
                           /\ after.tag = "Message"
                           /\ after.ref.val.name = t.name
                /\ (/\ op'.name # "resolve_refs"
                    /\ t.tag = "UnresolvedEnum"
                    /\ ~Registered(d.enums, t.name)
                    /\ Registered(d'.enums, t.name))
                        => /\ StoredType(d', p[1], p[2]) = t
                           /\ before = FieldType_UnresolvedEnum(t.name)
                           /\ after.tag = "Enum"
                           /\ after.ref.val.name = t.name]_vars

\* A message was just added; one field still stores an unresolved reference and is
\* viewed as the message that is registered under the name, another stores an unresolved
\* enum reference and is viewed as the enum, and a third stores a handle.
C13_Witness ==
    /\ op.name = "add_message"
    /\ \E p \in FieldPlaces(d) :
        /\ StoredType(d, p[1], p[2]).tag = "UnresolvedMessage"
        /\ field_type(d.messages[p[1]].fields[p[2]], d).tag = "Message"
    /\ \E p \in FieldPlaces(d) :
        /\ StoredType(d, p[1], p[2]).tag = "UnresolvedEnum"
        /\ field_type(d.messages[p[1]].fields[p[2]], d).tag = "Enum"
    /\ \E p \in FieldPlaces(d) : StoredType(d, p[1], p[2]).tag = "Message"

\* ------------------------------------------------------------------ C14

\* A sequence grew by exactly one element, at its end, and kept the others in place.
AddedLast(before, after, elem) ==
    /\ Len(after) = Len(before) + 1
    /\ after[Len(after)] = elem
    /\ \A i \in 1..Len(before) : after[i] = before[i]

\* An index has the entry of one key set to a position and its other entries unchanged.
EntrySet(before, after, key, position) ==
    /\ DOMAIN after = (DOMAIN before) \cup {key}
    /\ after[key] = position
    /\ \A k \in (DOMAIN before) \ {key} : after[k] = before[k]

\* C14: add_field, add_value, add_message and add_enum succeed for every argument, with
\* or without a name or number that is there already. Each puts the new element at the
\* end of its sequence, which grows by exactly one and keeps the earlier elements, and
\* sets the entry of the new element's name (and number) to the new position, so that a
\* lookup by a repeated name or number returns the element added last.
C14_AddsLastWriterWins ==
    /\ [](\A M \in AllMessages : \A f \in {g \in FieldInputs : g.field_type = Scalar("Int32")} :
            LET M2 == add_field(M, f)
            IN  /\ M2.name = M.name
                /\ AddedLast(fields(M), fields(M2), f)
                /\ EntrySet(M.fields_by_name, M2.fields_by_name, f.name, Len(fields(M)))
                /\ EntrySet(M.fields_by_number, M2.fields_by_number, f.number, Len(fields(M)))
                /\ field_by_name(M2, f.name) = Ref(fields(M2), Len(fields(M)))
                /\ field_by_number(M2, f.number) = Ref(fields(M2), Len(fields(M))))
    /\ [](\A E \in AllEnums : \A v \in ValueInputs :
            LET E2 == add_value(E, v)
            IN  /\ E2.name = E.name
                /\ AddedLast(E.values, E2.values, v)
                /\ EntrySet(E.values_by_name, E2.values_by_name, v.name, Len(E.values))
                /\ EntrySet(E.values_by_number, E2.values_by_number, v.number, Len(E.values))
                /\ value_by_name(E2, v.name) = Ref(E2.values, Len(E.values))
                /\ value_by_number(E2, v.number) = Ref(E2.values, Len(E.values)))
    /\ []((op.name # "panic" /\ Len(d.messages) < MaxMessages)
            => \A descriptor \in MessageInputs : ENABLED AddMessage(descriptor))
    /\ []((op.name # "panic" /\ Len(d.enums) < MaxEnums)
            => \A descriptor \in EnumInputs : ENABLED AddEnum(descriptor))
    /\ [][/\ op'.name = "add_message" =>
                /\ AddedLast(d.messages, d'.messages, op'.arg)
                /\ EntrySet(d.messages_by_name, d'.messages_by_name, op'.arg.name, Len(d.messages))
                /\ message_by_name(d', op'.arg.name) = Ref(d'.messages, Len(d.messages))
                /\ d'.enums = d.enums /\ d'.enums_by_name = d.enums_by_name
          /\ op'.name = "add_enum" =>
                /\ AddedLast(d.enums, d'.enums, op'.arg)
                /\ EntrySet(d.enums_by_name, d'.enums_by_name, op'.arg.name, Len(d.enums))
                /\ enum_by_name(d', op'.arg.name) = Ref(d'.enums, Len(d.enums))
                /\ d'.messages = d.messages /\ d'.messages_by_name = d.messages_by_name]_vars

\* add_enum has just registered an enum under a name that was registered before; the
\* earlier enum is still in the sequence and the lookup returns the later one. A message
\* name was registered twice as well, and a registered message has a field named x, a
\* name that add_field is called with again.
C14_Witness ==
    /\ op.name = "add_enum"
    /\ \E i \in 1..(Len(d.enums) - 1) :
        /\ d.enums[i].name = op.arg.name
        /\ enum_by_name(d, op.arg.name) = Ref(d.enums, Len(d.enums) - 1)
    /\ \E i, j \in 1..Len(d.messages) :
        /\ i < j
        /\ d.messages[i].name = d.messages[j].name
        /\ message_by_name(d, d.messages[i].name) = Ref(d.messages, j - 1)
        /\ <<"x">> \in DOMAIN d.messages[i].fields_by_name

\* ------------------------------------------------------------------ C15

\* A decimal integer as a string: an optional sign, then at least one digit.
IsDecimalInteger(str) ==
    /\ str # << >>
    /\ LET digits == IF Head(str) \in {"+", "-"} THEN Tail(str) ELSE str
       IN  digits # << >> /\ IsDigits(digits)

\* The magnitude of a decimal integer, most significant digit first, without leading
\* zeros (zero is the empty sequence), and whether the integer is below zero.
MagnitudeOf(str) ==
    LET digits == IF Head(str) \in {"+", "-"} THEN Tail(str) ELSE str
        first == {i \in 1..Len(digits) : digits[i] # "0"}
    IN  IF first = {} THEN << >>
        ELSE LET from == CHOOSE i \in first : \A k \in first : i <= k
             IN  [i \in 1..(Len(digits) - from + 1) |-> DigitOf(digits[from + i - 1])]

IsBelowZero(str) == Head(str) = "-" /\ MagnitudeOf(str) # << >>

\* Twice a magnitude: every digit doubled, plus the carry of the digit to its right,
\* which is one exactly when that digit is five or more.
Double(ns) ==
    LET body == [i \in 1..Len(ns) |->
                    (2 * ns[i] + (IF i < Len(ns) /\ ns[i + 1] >= 5 THEN 1 ELSE 0)) % 10]
    IN  IF ns[1] >= 5 THEN <<1>> \o body ELSE body

\* 2^n as a magnitude.
RECURSIVE TwoTo(_)
TwoTo(n) == IF n = 0 THEN <<1>> ELSE CHOOSE out \in {Double(prev) : prev \in {TwoTo(n - 1)}} : TRUE

TwoTo31 == TwoTo(31)

TwoTo32 == TwoTo(32)

TwoTo63 == TwoTo(63)

TwoTo64 == TwoTo(64)

\* a < b for two magnitudes.
MagnitudeLess(a, b) ==
    \/ Len(a) < Len(b)
    \/ /\ Len(a) = Len(b)
       /\ \E i \in 1..Len(a) : a[i] < b[i] /\ \A k \in 1..(i - 1) : a[k] = b[k]

\* The value of the string lies in [-half, half - 1], and in [0, whole - 1].
InSignedRange(str, half) ==
    IF IsBelowZero(str) THEN MagnitudeOf(str) = half \/ MagnitudeLess(MagnitudeOf(str), half)
    ELSE MagnitudeLess(MagnitudeOf(str), half)

InUnsignedRange(str, whole) == ~IsBelowZero(str) /\ MagnitudeLess(MagnitudeOf(str), whole)

\* The range of each integer field type, as C15 gives it.
InRangeOfType(t, str) ==
    CASE t \in {"Int32", "SFixed32", "SInt32"} -> InSignedRange(str, TwoTo31)
      [] t \in {"Int64", "SFixed64", "SInt64"} -> InSignedRange(str, TwoTo63)
      [] t \in {"UInt32", "Fixed32"} -> InUnsignedRange(str, TwoTo32)
      [] t \in {"UInt64", "Fixed64"} -> InUnsignedRange(str, TwoTo64)

\* The value variant that holds a default of each integer field type.
ValueTagOfType(t) ==
    CASE t \in {"Int32", "SFixed32", "SInt32"} -> "I32"
      [] t \in {"Int64", "SFixed64", "SInt64"} -> "I64"
      [] t \in {"UInt32", "Fixed32"} -> "U32"
      [] t \in {"UInt64", "Fixed64"} -> "U64"

\* The stored form of the exact value of a decimal integer.
ExactValue(str) ==
    [negative |-> IsBelowZero(str),
     magnitude |-> [i \in 1..Len(MagnitudeOf(str)) |->
                        CHOOSE c \in DigitChars : DigitOf(c) = MagnitudeOf(str)[i]]]

\* The last import was of a field x of an integer type with a decimal integer as its
\* default value: the decoder accepts the string exactly when accepted is true, an
\* accepted default is the field's default value with the exact value, and a rejected
\* one is BadDefaultValue with the string and leaves the field without default value.
IntegerDefaultDecided(accepted) ==
    LET proto == FieldProtosOf(op.arg)[1]
        t == InternalFieldType_from_proto(proto.type_, proto.type_name)
        str == proto.default_value
        f == fields(d.messages[Len(d.messages)])[1]
    IN  IF accepted
        THEN /\ parse_default_value(str, t) = Ok(Value(ValueTagOfType(t.tag), ExactValue(str)))
             /\ default_value(f) = Some(Value(ValueTagOfType(t.tag), ExactValue(str)))
        ELSE /\ parse_default_value(str, t) = Err(bad(str))
             /\ default_value(f) = None

\* The last import was of a field of an integer type with a decimal integer as default.
IntegerDefaultImported ==
    /\ op.name = "add_file_proto"
    /\ FieldProtosOf(op.arg)[1].type_ \in IntegerProtoTypes
    /\ IsDecimalInteger(FieldProtosOf(op.arg)[1].default_value)

\* C15 as stated: a decimal default of an integer field type is accepted exactly when
\* its value lies in the range of the type, [-2^31, 2^31 - 1], [-2^63, 2^63 - 1],
\* [0, 2^32 - 1] or [0, 2^64 - 1]; an accepted default is stored with its exact value and
\* any other yields BadDefaultValue with the string.
C15_AcceptedIffInRange ==
    IntegerDefaultImported =>
        LET proto == FieldProtosOf(op.arg)[1]
        IN  IntegerDefaultDecided(InRangeOfType(ProtoTypeTag(proto.type_), proto.default_value))

\* C15, amended: as stated for the signed types. A default of an unsigned type is
\* accepted exactly when it is written without a minus sign and its value lies in the
\* range: a minus sign is rejected also before zero ("-0").
C15_AcceptedIffInRangeNoMinus ==
    IntegerDefaultImported =>
        LET proto == FieldProtosOf(op.arg)[1]
            t == ProtoTypeTag(proto.type_)
        IN  IntegerDefaultDecided(
                /\ InRangeOfType(t, proto.default_value)
                /\ t \in {"UInt32", "Fixed32", "UInt64", "Fixed64"} => Head(proto.default_value) # "-")

\* The largest value of UInt64 was imported as the default of a field of that type and
\* is the field's default value.
C15_Witness ==
    /\ IntegerDefaultImported
    /\ FieldProtosOf(op.arg)[1].type_ = "TYPE_UINT64"
    /\ FieldProtosOf(op.arg)[1].default_value = U64Max
    /\ default_value(fields(d.messages[Len(d.messages)])[1])
           = Some(Value("U64", [negative |-> FALSE, magnitude |-> U64Max]))

\* ------------------------------------------------------------------ C16

\* The names of the registered messages, and of the registered enums.
MessageNames(descriptors) == {descriptors.messages[i].name : i \in 1..Len(descriptors.messages)}

EnumNames(descriptors) == {descriptors.enums[i].name : i \in 1..Len(descriptors.enums)}

\* C16: message names and enum names do not meet. message_by_name answers from the
\* messages alone and enum_by_name from the enums alone, so a name that both a message
\* and an enum were registered under, in either order, finds each of them. A reference
\* to a message is resolved, by resolve_refs and by field_type, against the messages
\* only and a reference to an enum against the enums only: a message reference whose
\* name only an enum has stays unresolved, and so does an enum reference whose name only
\* a message has.
C16_SeparateNamespaces ==
    /\ [](\A n \in ProbeNames \cup MessageNames(d) \cup EnumNames(d) :
            /\ message_by_name(d, n) =
                    (IF n \in MessageNames(d) THEN Ref(d.messages, LastNamed(d.messages, n) - 1) ELSE None)
            /\ enum_by_name(d, n) =
                    (IF n \in EnumNames(d) THEN Ref(d.enums, LastNamed(d.enums, n) - 1) ELSE None)
            /\ n \notin MessageNames(d) =>
                    /\ ResolveFieldType(d, UnresolvedMessage(n)) = UnresolvedMessage(n)
                    /\ InternalFieldType_resolve(UnresolvedMessage(n), d) = FieldType_UnresolvedMessage(n)
            /\ n \notin EnumNames(d) =>
                    /\ ResolveFieldType(d, UnresolvedEnum(n)) = UnresolvedEnum(n)
                    /\ InternalFieldType_resolve(UnresolvedEnum(n), d) = FieldType_UnresolvedEnum(n)
            /\ n \in MessageNames(d) =>
                    /\ ResolveFieldType(d, UnresolvedMessage(n)) = Message(LastNamed(d.messages, n) - 1)
                    /\ InternalFieldType_resolve(UnresolvedMessage(n), d)
                           = FieldType_Message(Ref(d.messages, LastNamed(d.messages, n) - 1).val)
            /\ n \in EnumNames(d) =>
                    /\ ResolveFieldType(d, UnresolvedEnum(n)) = Enum(LastNamed(d.enums, n) - 1)
                    /\ InternalFieldType_resolve(UnresolvedEnum(n), d)
                           = FieldType_Enum(Ref(d.enums, LastNamed(d.enums, n) - 1).val))
    /\ [][op'.name = "resolve_refs" =>
            \A p \in FieldPlaces(d) :
                LET before == StoredType(d, p[1], p[2])
                    after == StoredType(d', p[1], p[2])
                IN  /\ (before.tag = "UnresolvedMessage" /\ before.name \notin MessageNames(d))
                            => after = before
                    /\ (before.tag = "UnresolvedEnum" /\ before.name \notin EnumNames(d))
                            => after = before
                    /\ (before.tag = "UnresolvedMessage" /\ before.name \in MessageNames(d))
                            => after.tag = "Message" /\ d'.messages[after.id + 1].name = before.name
                    /\ (before.tag = "UnresolvedEnum" /\ before.name \in EnumNames(d))
                            => after.tag = "Enum" /\ d'.enums[after.id + 1].name = before.name]_vars

\* resolve_refs has returned; a message and an enum are both registered under .A and
\* each is found by its own lookup; a field keeps its reference to a message .E, a name
\* that only an enum has, and another field holds the handle of that enum.
C16_Witness ==
    /\ op.name = "resolve_refs"
    /\ NameA \in MessageNames(d) /\ NameA \in EnumNames(d)
    /\ message_by_name(d, NameA).val.val.name = NameA
    /\ enum_by_name(d, NameA).val.val.name = NameA
    /\ NameE \in EnumNames(d) /\ NameE \notin MessageNames(d)
    /\ \E p \in FieldPlaces(d) : StoredType(d, p[1], p[2]) = UnresolvedMessage(NameE)
    /\ \E p \in FieldPlaces(d) :
        /\ StoredType(d, p[1], p[2]).tag = "Enum"
        /\ d.enums[StoredType(d, p[1], p[2]).id + 1].name = NameE

\* ------------------------------------------------------------------ C17

\* Two views denote the same thing: the same scalar marker, the same unresolved name, or
\* the descriptor at the same position, which is the same but for the stored types of
\* its fields.
SameView(a, b) ==
    /\ a.tag = b.tag
    /\ CASE a.tag = "Message" ->
                /\ a.ref.at = b.ref.at
                /\ MessageButTypes(a.ref.val) = MessageButTypes(b.ref.val)
         [] a.tag = "Enum" -> a.ref = b.ref
         [] a.tag \in {"UnresolvedMessage", "UnresolvedEnum"} -> a.name = b.name
         [] OTHER -> a = b

\* Two results of a message lookup are the same: both absent, or the same position.
SameMessageFound(a, b) ==
    /\ a.tag = b.tag
    /\ a.tag = "Some" =>
        /\ a.val.at = b.val.at
        /\ MessageButTypes(a.val.val) = MessageButTypes(b.val.val)

\* Two results of a field lookup are the same: both absent, or the same position.
SameFieldFound(a, b) ==
    /\ a.tag = b.tag
    /\ a.tag = "Some" =>
        /\ a.val.at = b.val.at
        /\ FieldButType(a.val.val) = FieldButType(b.val.val)

\* C17: a reader sees no difference between the registry right before resolve_refs and
\* right after it: every registered field's field_type(registry) denotes the same scalar
\* marker, the same descriptor or the same unresolved name, and message_by_name,
\* enum_by_name, field_by_name and field_by_number answer every key as before.
C17_ResolveInvisible ==
    [][op'.name = "resolve_refs" =>
        /\ \A p \in FieldPlaces(d) :
            /\ field_type(d.messages[p[1]].fields[p[2]], d) # Panic
            /\ SameView(field_type(d.messages[p[1]].fields[p[2]], d),
                        field_type(d'.messages[p[1]].fields[p[2]], d'))
        /\ \A n \in ProbeNames \cup MessageNames(d) \cup EnumNames(d) :
            /\ SameMessageFound(message_by_name(d, n), message_by_name(d', n))
            /\ enum_by_name(d, n) = enum_by_name(d', n)
        /\ Len(d'.messages) = Len(d.messages)
        /\ \A i \in 1..Len(d.messages) :
            /\ \A n \in ProbeNames \cup DOMAIN d.messages[i].fields_by_name :
                SameFieldFound(field_by_name(d.messages[i], n), field_by_name(d'.messages[i], n))
            /\ \A k \in ProbeNumbers \cup DOMAIN d.messages[i].fields_by_number :
                SameFieldFound(field_by_number(d.messages[i], k), field_by_number(d'.messages[i], k))]_vars

\* resolve_refs has returned and has stored the handle of a message whose name is
\* registered twice, and has left a reference unresolved.
C17_Witness ==
    /\ op.name = "resolve_refs"
    /\ \E p \in FieldPlaces(d) :
        /\ StoredType(d, p[1], p[2]).tag = "Message"
        /\ \E k \in 1..Len(d.messages) :
            /\ k # StoredType(d, p[1], p[2]).id + 1
            /\ d.messages[k].name = d.messages[StoredType(d, p[1], p[2]).id + 1].name
    /\ \E p \in FieldPlaces(d) : StoredType(d, p[1], p[2]).tag = "UnresolvedMessage"

\* ------------------------------------------------------------------ C18

\* C18: resolve_refs changes the stored type of fields that are unresolved references
\* and nothing else. The messages and the enums are as many as before, in the same order
\* and under the same names; both name indices of the registry, every message's field
\* sequence but for those types, its two field indices, every field's name, number,
\* label, default value and optional flag, and every enum with its values and indices
\* are unchanged; so is the stored type of every field that is a scalar marker or a
\* handle. What is built but not registered is untouched.
C18_ResolveFrame ==
    [][op'.name = "resolve_refs" =>
        /\ Len(d'.messages) = Len(d.messages)
        /\ d'.enums = d.enums
        /\ d'.messages_by_name = d.messages_by_name
        /\ d'.enums_by_name = d.enums_by_name
        /\ m' = m /\ e' = e
        /\ \A i \in 1..Len(d.messages) :
            /\ d'.messages[i].name = d.messages[i].name
            /\ d'.messages[i].fields_by_name = d.messages[i].fields_by_name
            /\ d'.messages[i].fields_by_number = d.messages[i].fields_by_number
            /\ Len(d'.messages[i].fields) = Len(d.messages[i].fields)
            /\ \A j \in 1..Len(d.messages[i].fields) :
                LET before == d.messages[i].fields[j]
                    after == d'.messages[i].fields[j]
                IN  /\ after.name = before.name
                    /\ after.number = before.number
                    /\ after.field_label = before.field_label
                    /\ after.default_value = before.default_value
                    /\ after.optional = before.optional
                    /\ before.field_type.tag \notin {"UnresolvedMessage", "UnresolvedEnum"}
                            => after.field_type = before.field_type
                    /\ before.field_type.tag = "UnresolvedMessage"
                            => after.field_type = before.field_type \/ after.field_type.tag = "Message"
                    /\ before.field_type.tag = "UnresolvedEnum"
                            => after.field_type = before.field_type \/ after.field_type.tag = "Enum"]_vars

\* resolve_refs has returned a second time or later in a registry that holds handles
\* from before, a scalar field, a repeated field, a dangling reference and an enum.
C18_Witness ==
    /\ op.name = "resolve_refs"
    /\ Len(d.enums) > 0
    /\ \E p \in FieldPlaces(d) : StoredType(d, p[1], p[2]).tag = "Message"
    /\ \E p \in FieldPlaces(d) : StoredType(d, p[1], p[2]).tag = "Int32"
    /\ \E p \in FieldPlaces(d) : d.messages[p[1]].fields[p[2]].field_label = "Repeated"
    /\ \E p \in FieldPlaces(d) : Dangling(d, StoredType(d, p[1], p[2]))

\* ------------------------------------------------------------------ C19

\* C19: a stored handle is final. No step, of add_message, add_enum, an import or
\* another resolve_refs, changes a stored Message(h) or Enum(h), and the descriptor at h
\* stays the one it was. Where a descriptor was registered later under the name of the
\* descriptor at h, the field's view is still the descriptor at h, while the lookup of
\* the name, and the view of an unresolved reference to it, is the later descriptor.
C19_ResolvedIsFinal ==
    /\ [][\A p \in FieldPlaces(d) :
            LET t == StoredType(d, p[1], p[2])
            IN  /\ t.tag \in {"Message", "Enum"} => StoredType(d', p[1], p[2]) = t
                /\ t.tag = "Message" =>
                        MessageButTypes(d'.messages[t.id + 1]) = MessageButTypes(d.messages[t.id + 1])
                /\ t.tag = "Enum" => d'.enums[t.id + 1] = d.enums[t.id + 1]]_vars
    /\ [](\A p \in FieldPlaces(d) :
            LET t == StoredType(d, p[1], p[2])
                view == field_type(d.messages[p[1]].fields[p[2]], d)
            IN  /\ t.tag = "Message" =>
                    LET n == d.messages[t.id + 1].name
                    IN  /\ view = FieldType_Message(Ref(d.messages, t.id).val)
                        /\ LastNamed(d.messages, n) - 1 >= t.id
                        /\ message_by_name(d, n) = Ref(d.messages, LastNamed(d.messages, n) - 1)
                        /\ InternalFieldType_resolve(UnresolvedMessage(n), d)
                               = FieldType_Message(Ref(d.messages, LastNamed(d.messages, n) - 1).val)
                /\ t.tag = "Enum" =>
                    LET n == d.enums[t.id + 1].name
                    IN  /\ view = FieldType_Enum(Ref(d.enums, t.id).val)
                        /\ LastNamed(d.enums, n) - 1 >= t.id
                        /\ enum_by_name(d, n) = Ref(d.enums, LastNamed(d.enums, n) - 1)
                        /\ InternalFieldType_resolve(UnresolvedEnum(n), d)
                               = FieldType_Enum(Ref(d.enums, LastNamed(d.enums, n) - 1).val))

\* A field holds the handle of a message; a message was added later under that
\* message's name, with a field that refers to the name and is still unresolved: the
\* handle is of the earlier message, the lookup and the unresolved field find the later.
C19_Witness ==
    /\ op.name = "add_message"
    /\ \E p \in FieldPlaces(d) :
        LET t == StoredType(d, p[1], p[2])
        IN  /\ t.tag = "Message"
            /\ LastNamed(d.messages, d.messages[t.id + 1].name) - 1 > t.id
            /\ message_by_name(d, d.messages[t.id + 1].name).val.at > t.id
            /\ \E q \in FieldPlaces(d) :
                StoredType(d, q[1], q[2]) = UnresolvedMessage(d.messages[t.id + 1].name)

====
